---- MODULE Spec2Model ----
(***************************************************************************)
(* Image provenance validation pipeline of dataScrapper:                   *)
(*   ImageSearchService (src/src/imageSearchService.js) - isValidImageUrl, *)
(*   searchUniversityImage / searchCityImage, executeStrategies,           *)
(*   isForbidden, hasBadKeywords;                                          *)
(*   CityService.validateImageUrl (src/src/cityService.js).                *)
(*                                                                         *)
(* JavaScript strings are sequences of one-character strings, so that      *)
(* includes / endsWith / startsWith / toLowerCase / split are computed     *)
(* character by character as the code computes them.                       *)
(***************************************************************************)
EXTENDS Integers, Sequences, FiniteSets, TLC

(***************************************************************************)
(* Bounds of the model                                                     *)
(***************************************************************************)
\* longest data.items list the provider returns in the model
MaxItems == 2

(***************************************************************************)
(* JavaScript values and String.prototype operations                       *)
(***************************************************************************)
Str(s) == [t |-> "string", s |-> s]

Num(n) == [t |-> "number", n |-> n]

Bool(b) == [t |-> "boolean", b |-> b]

Null == [t |-> "null"]

Undefined == [t |-> "undefined"]

NaN == [t |-> "nan"]

\* ToBoolean: what `!v`, `v && w`, `if (v)` test
Truthy(v) ==
    CASE v.t = "string"  -> v.s # <<>>
      [] v.t = "number"  -> v.n # 0
      [] v.t = "boolean" -> v.b
      [] OTHER           -> FALSE

\* `a || b`
OrElse(a, b) == IF Truthy(a) THEN a ELSE b

\* string conversion inside a template literal `${v}`
ToStr(v) ==
    CASE v.t = "string"    -> v.s
      [] v.t = "undefined" -> <<"u", "n", "d", "e", "f", "i", "n", "e", "d">>
      [] v.t = "null"      -> <<"n", "u", "l", "l">>
      [] OTHER             -> <<"?">>

UpperToLower ==
    [ A |-> "a", B |-> "b", C |-> "c", D |-> "d", E |-> "e", F |-> "f", G |-> "g", H |-> "h", I |-> "i", J |-> "j", K |-> "k", L |-> "l", M |-> "m", N |-> "n", O |-> "o", P |-> "p", Q |-> "q", R |-> "r", S |-> "s", T |-> "t", U |-> "u", V |-> "v", W |-> "w", X |-> "x", Y |-> "y", Z |-> "z" ]

LowerChar(c) == IF c \in DOMAIN UpperToLower THEN UpperToLower[c] ELSE c

\* String.prototype.toLowerCase
toLowerCase(s) == [i \in 1..Len(s) |-> LowerChar(s[i])]

\* String.prototype.includes
includes(s, p) ==
    \E i \in 0..(Len(s) - Len(p)) : SubSeq(s, i + 1, i + Len(p)) = p

\* String.prototype.endsWith
endsWith(s, p) ==
    Len(p) <= Len(s) /\ SubSeq(s, Len(s) - Len(p) + 1, Len(s)) = p

\* String.prototype.startsWith
startsWith(s, p) ==
    Len(p) <= Len(s) /\ SubSeq(s, 1, Len(p)) = p

\* position of the first character c of s at or after position i, else Len(s)+1
RECURSIVE IndexFrom(_, _, _)
IndexFrom(s, c, i) ==
    IF i > Len(s) \/ s[i] = c THEN i ELSE IndexFrom(s, c, i + 1)

\* String.prototype.split with a one-character separator
RECURSIVE split(_, _)
split(s, c) ==
    LET k == IndexFrom(s, c, 1)
    IN  IF k > Len(s) THEN <<s>>
        ELSE <<SubSeq(s, 1, k - 1)>> \o split(SubSeq(s, k + 1, Len(s)), c)

\* Array.prototype.some over a list of patterns: some pattern occurs in s
someIncludes(patterns, s) == \E p \in patterns : includes(s, p)

Space == <<" ">>

(***************************************************************************)
(* Keyword lists of the source (Array.prototype.some ignores their order)  *)
(***************************************************************************)
\* imageSearchService.js:18
imageExtensions ==
    { <<".", "j", "p", "g">>,
      <<".", "j", "p", "e", "g">>,
      <<".", "p", "n", "g">>,
      <<".", "g", "i", "f">>,
      <<".", "w", "e", "b", "p">>,
      <<".", "b", "m", "p">>,
      <<".", "s", "v", "g">>,
      <<".", "t", "i", "f", "f">>,
      <<".", "t", "i", "f">> }

\* imageSearchService.js:22
imagePathPatterns ==
    { <<"/", "i", "m", "a", "g", "e", "/">>,
      <<"/", "i", "m", "g", "/">>,
      <<"/", "p", "h", "o", "t", "o", "/">>,
      <<"/", "p", "i", "c", "t", "u", "r", "e", "/">>,
      <<"/", "i", "m", "a", "g", "e", "s", "/">>,
      <<"/", "p", "h", "o", "t", "o", "s", "/">>,
      <<"/", "p", "i", "c", "t", "u", "r", "e", "s", "/">> }

\* imageSearchService.js:26
imageCdnPatterns ==
    { <<"i", ".", "i", "m", "g", "u", "r", ".", "c", "o", "m">>,
      <<"c", "d", "n", ".">>,
      <<"s", "t", "a", "t", "i", "c", ".">>,
      <<"a", "s", "s", "e", "t", "s", ".">>,
      <<"m", "e", "d", "i", "a", ".">>,
      <<"u", "p", "l", "o", "a", "d", "s", "/">> }

\* cityService.js:149 (no '.svg' entry)
cityImageExtensions ==
    { <<".", "j", "p", "g">>,
      <<".", "j", "p", "e", "g">>,
      <<".", "p", "n", "g">>,
      <<".", "g", "i", "f">>,
      <<".", "w", "e", "b", "p">>,
      <<".", "b", "m", "p">>,
      <<".", "t", "i", "f", "f">>,
      <<".", "t", "i", "f">> }

\* imageSearchService.js:238-246
notRealPhotoKeywords ==
    { <<"p", "i", "c", "t", "u", "r", "e", "-", "f", "r", "a", "m", "e">>,
      <<"p", "i", "c", "t", "u", "r", "e", " ", "f", "r", "a", "m", "e">>,
      <<"f", "r", "a", "m", "e", "d", "-">>,
      <<"-", "f", "r", "a", "m", "e", "d">>,
      <<"f", "r", "a", "m", "e", "-">>,
      <<"-", "f", "r", "a", "m", "e">>,
      <<"s", "h", "i", "r", "t">>,
      <<"t", "-", "s", "h", "i", "r", "t">>,
      <<"t", "s", "h", "i", "r", "t">>,
      <<"m", "e", "r", "c", "h", "a", "n", "d", "i", "s", "e">>,
      <<"m", "e", "r", "c", "h">>,
      <<"p", "r", "i", "n", "t", "-", "o", "n">>,
      <<"p", "r", "i", "n", "t", "-", "o", "n", "-", "s", "h", "i", "r", "t">>,
      <<"o", "n", "-", "s", "h", "i", "r", "t">>,
      <<"o", "n", "-", "t", "s", "h", "i", "r", "t">>,
      <<"a", "p", "p", "a", "r", "e", "l">>,
      <<"c", "l", "o", "t", "h", "i", "n", "g">>,
      <<"m", "u", "g">>,
      <<"p", "o", "s", "t", "e", "r", "-", "p", "r", "i", "n", "t">>,
      <<"p", "o", "s", "t", "e", "r", " ", "p", "r", "i", "n", "t">>,
      <<"c", "a", "n", "v", "a", "s", "-", "p", "r", "i", "n", "t">>,
      <<"c", "a", "n", "v", "a", "s", " ", "p", "r", "i", "n", "t">>,
      <<"a", "r", "t", "-", "p", "r", "i", "n", "t">>,
      <<"a", "r", "t", " ", "p", "r", "i", "n", "t">>,
      <<"r", "e", "n", "d", "e", "r", "e", "d">>,
      <<"3", "d", "-", "r", "e", "n", "d", "e", "r">>,
      <<"3", "d", " ", "r", "e", "n", "d", "e", "r">>,
      <<"c", "g", "-", "r", "e", "n", "d", "e", "r">>,
      <<"c", "g", " ", "r", "e", "n", "d", "e", "r">>,
      <<"c", "o", "m", "p", "u", "t", "e", "r", "-", "g", "e", "n", "e", "r", "a", "t", "e", "d">>,
      <<"a", "r", "t", "i", "f", "i", "c", "i", "a", "l">>,
      <<"m", "o", "c", "k", "u", "p">>,
      <<"m", "o", "c", "k", "-", "u", "p">>,
      <<"t", "e", "m", "p", "l", "a", "t", "e">>,
      <<"p", "l", "a", "c", "e", "h", "o", "l", "d", "e", "r">>,
      <<"i", "l", "l", "u", "s", "t", "r", "a", "t", "i", "o", "n">> }

\* imageSearchService.js:285
wrongCountries ==
    { <<"j", "a", "p", "a", "n">>,
      <<"t", "o", "k", "y", "o">>,
      <<"c", "h", "i", "n", "a">>,
      <<"b", "e", "i", "j", "i", "n", "g">>,
      <<"s", "h", "a", "n", "g", "h", "a", "i">>,
      <<"k", "o", "r", "e", "a">>,
      <<"s", "e", "o", "u", "l">> }

\* imageSearchService.js:304
campusKeywords ==
    { <<"c", "a", "m", "p", "u", "s">>,
      <<"b", "u", "i", "l", "d", "i", "n", "g">>,
      <<"a", "r", "c", "h", "i", "t", "e", "c", "t", "u", "r", "e">>,
      <<"e", "x", "t", "e", "r", "i", "o", "r">>,
      <<"u", "n", "i", "v", "e", "r", "s", "i", "t", "y">> }

\* imageSearchService.js:308
genericKeywords ==
    { <<"g", "e", "n", "e", "r", "i", "c">>,
      <<"s", "t", "o", "c", "k", "-", "p", "h", "o", "t", "o">>,
      <<"p", "l", "a", "c", "e", "h", "o", "l", "d", "e", "r">>,
      <<"t", "e", "m", "p", "l", "a", "t", "e">> }

\* imageSearchService.js:324
cityscapeKeywords ==
    { <<"c", "i", "t", "y", "s", "c", "a", "p", "e">>,
      <<"s", "k", "y", "l", "i", "n", "e">>,
      <<"u", "r", "b", "a", "n", "-", "l", "a", "n", "d", "s", "c", "a", "p", "e">>,
      <<"m", "a", "n", "y", "-", "b", "u", "i", "l", "d", "i", "n", "g", "s">>,
      <<"c", "i", "t", "y", "-", "v", "i", "e", "w">>,
      <<"b", "u", "i", "l", "d", "i", "n", "g", "s">>,
      <<"d", "o", "w", "n", "t", "o", "w", "n">>,
      <<"w", "a", "t", "e", "r", "f", "r", "o", "n", "t">>,
      <<"l", "a", "n", "d", "m", "a", "r", "k">> }

\* imageSearchService.js:328
singleBuildingKeywords ==
    { <<"s", "i", "n", "g", "l", "e", "-", "b", "u", "i", "l", "d", "i", "n", "g">>,
      <<"o", "n", "e", "-", "b", "u", "i", "l", "d", "i", "n", "g">>,
      <<"i", "n", "d", "i", "v", "i", "d", "u", "a", "l", "-", "b", "u", "i", "l", "d", "i", "n", "g">> }

\* imageSearchService.js:380
badDomains ==
    { <<"w", "i", "k", "i", "m", "e", "d", "i", "a", ".", "o", "r", "g">>,
      <<"w", "i", "k", "i", "p", "e", "d", "i", "a", ".", "o", "r", "g">>,
      <<"f", "a", "c", "e", "b", "o", "o", "k", ".", "c", "o", "m">>,
      <<"l", "o", "o", "k", "a", "s", "i", "d", "e", ".", "f", "b", "s", "b", "x", ".", "c", "o", "m">> }

\* imageSearchService.js:381
badExts ==
    { <<".", "s", "v", "g">>,
      <<".", "g", "i", "f">>,
      <<".", "i", "c", "o">> }

\* imageSearchService.js:393
universalBad ==
    { <<"l", "o", "g", "o">>,
      <<"c", "r", "e", "s", "t">>,
      <<"s", "e", "a", "l">>,
      <<"m", "a", "p">>,
      <<"d", "i", "a", "g", "r", "a", "m">>,
      <<"c", "l", "i", "p", "a", "r", "t">>,
      <<"v", "e", "c", "t", "o", "r">>,
      <<"b", "l", "a", "c", "k", "-", "w", "h", "i", "t", "e">>,
      <<"v", "i", "n", "t", "a", "g", "e">> }

\* imageSearchService.js:396-402
peopleBad ==
    { <<"p", "e", "r", "s", "o", "n">>,
      <<"p", "e", "o", "p", "l", "e">>,
      <<"c", "r", "o", "w", "d">>,
      <<"c", "r", "o", "w", "d", "s">>,
      <<"p", "e", "d", "e", "s", "t", "r", "i", "a", "n">>,
      <<"p", "e", "d", "e", "s", "t", "r", "i", "a", "n", "s">>,
      <<"t", "o", "u", "r", "i", "s", "t">>,
      <<"t", "o", "u", "r", "i", "s", "t", "s">>,
      <<"v", "i", "s", "i", "t", "o", "r">>,
      <<"v", "i", "s", "i", "t", "o", "r", "s">>,
      <<"s", "t", "u", "d", "e", "n", "t">>,
      <<"s", "t", "u", "d", "e", "n", "t", "s">>,
      <<"g", "r", "o", "u", "p">>,
      <<"g", "r", "o", "u", "p", "s">>,
      <<"a", "u", "d", "i", "e", "n", "c", "e">>,
      <<"f", "a", "n", "s">>,
      <<"s", "p", "e", "c", "t", "a", "t", "o", "r">>,
      <<"s", "p", "e", "c", "t", "a", "t", "o", "r", "s">>,
      <<"w", "a", "l", "k", "i", "n", "g">>,
      <<"s", "t", "a", "n", "d", "i", "n", "g">>,
      <<"s", "i", "t", "t", "i", "n", "g">>,
      <<"g", "a", "t", "h", "e", "r", "i", "n", "g">>,
      <<"e", "v", "e", "n", "t">>,
      <<"f", "e", "s", "t", "i", "v", "a", "l">>,
      <<"p", "o", "r", "t", "r", "a", "i", "t">>,
      <<"p", "o", "r", "t", "r", "a", "i", "t", "s">>,
      <<"f", "a", "c", "e">>,
      <<"f", "a", "c", "e", "s">>,
      <<"h", "u", "m", "a", "n">>,
      <<"h", "u", "m", "a", "n", "s">> }

\* imageSearchService.js:405-414
notRealPhoto ==
    { <<"p", "i", "c", "t", "u", "r", "e", "-", "f", "r", "a", "m", "e">>,
      <<"p", "i", "c", "t", "u", "r", "e", " ", "f", "r", "a", "m", "e">>,
      <<"f", "r", "a", "m", "e", "d">>,
      <<"f", "r", "a", "m", "e", "-">>,
      <<"-", "f", "r", "a", "m", "e">>,
      <<"s", "h", "i", "r", "t">>,
      <<"t", "-", "s", "h", "i", "r", "t">>,
      <<"t", "s", "h", "i", "r", "t">>,
      <<"m", "e", "r", "c", "h", "a", "n", "d", "i", "s", "e">>,
      <<"m", "e", "r", "c", "h">>,
      <<"p", "r", "i", "n", "t", "-", "o", "n">>,
      <<"p", "r", "i", "n", "t", "-", "o", "n", "-", "s", "h", "i", "r", "t">>,
      <<"o", "n", "-", "s", "h", "i", "r", "t">>,
      <<"o", "n", "-", "t", "s", "h", "i", "r", "t">>,
      <<"a", "p", "p", "a", "r", "e", "l">>,
      <<"c", "l", "o", "t", "h", "i", "n", "g">>,
      <<"m", "u", "g">>,
      <<"p", "o", "s", "t", "e", "r", "-", "p", "r", "i", "n", "t">>,
      <<"p", "o", "s", "t", "e", "r", " ", "p", "r", "i", "n", "t">>,
      <<"c", "a", "n", "v", "a", "s", "-", "p", "r", "i", "n", "t">>,
      <<"c", "a", "n", "v", "a", "s", " ", "p", "r", "i", "n", "t">>,
      <<"a", "r", "t", "-", "p", "r", "i", "n", "t">>,
      <<"a", "r", "t", " ", "p", "r", "i", "n", "t">>,
      <<"r", "e", "n", "d", "e", "r", "e", "d">>,
      <<"3", "d", "-", "r", "e", "n", "d", "e", "r">>,
      <<"3", "d", " ", "r", "e", "n", "d", "e", "r">>,
      <<"c", "g", "-", "r", "e", "n", "d", "e", "r">>,
      <<"c", "g", " ", "r", "e", "n", "d", "e", "r">>,
      <<"c", "o", "m", "p", "u", "t", "e", "r", "-", "g", "e", "n", "e", "r", "a", "t", "e", "d">>,
      <<"a", "r", "t", "i", "f", "i", "c", "i", "a", "l">>,
      <<"m", "o", "c", "k", "u", "p">>,
      <<"m", "o", "c", "k", "-", "u", "p">>,
      <<"t", "e", "m", "p", "l", "a", "t", "e">>,
      <<"p", "l", "a", "c", "e", "h", "o", "l", "d", "e", "r">>,
      <<"i", "l", "l", "u", "s", "t", "r", "a", "t", "i", "o", "n">>,
      <<"d", "r", "a", "w", "i", "n", "g">>,
      <<"s", "k", "e", "t", "c", "h">>,
      <<"p", "a", "i", "n", "t", "i", "n", "g">>,
      <<"a", "r", "t", "w", "o", "r", "k">> }

\* imageSearchService.js:417
uniBad ==
    { <<"s", "t", "a", "d", "i", "u", "m">>,
      <<"f", "o", "o", "t", "b", "a", "l", "l">>,
      <<"b", "a", "s", "k", "e", "t", "b", "a", "l", "l">>,
      <<"s", "p", "o", "r", "t">>,
      <<"t", "e", "a", "m">>,
      <<"r", "o", "s", "t", "e", "r">>,
      <<"c", "o", "a", "c", "h">>,
      <<"m", "a", "s", "c", "o", "t">>,
      <<"i", "n", "d", "o", "o", "r">>,
      <<"c", "l", "a", "s", "s", "r", "o", "o", "m">>,
      <<"c", "a", "f", "e", "t", "e", "r", "i", "a">> }

(***************************************************************************)
(* ImageSearchService: synchronous filters                                 *)
(***************************************************************************)
\* isForbidden(url), imageSearchService.js:378-387
isForbidden(url) ==
    LET lower == toLowerCase(url)
    IN  \/ \E d \in badDomains : includes(lower, d)
        \/ \E e \in badExts : endsWith(lower, e)

\* hasBadKeywords(url, type), imageSearchService.js:389-428
hasBadKeywords(url, type) ==
    LET lower == toLowerCase(url)
    IN  IF someIncludes(universalBad, lower) THEN TRUE
        ELSE IF someIncludes(peopleBad, lower) THEN TRUE
        ELSE IF someIncludes(notRealPhoto, lower) THEN TRUE
        ELSE IF type = "university" THEN someIncludes(uniBad, lower)
        ELSE FALSE

\* item.image?.contextLink || "" (line 225)
contextLinkOf(item) ==
    OrElse(IF item.image.t = "object" THEN item.image.contextLink ELSE Undefined,
           Str(<<>>))

\* item.title || "" (line 226)
titleOf(item) == OrElse(item.title, Str(<<>>))

\* allText (line 229): `${imageUrl} ${contextLink} ${title}`.toLowerCase()
allTextOf(item) ==
    toLowerCase(ToStr(item.link) \o Space \o ToStr(contextLinkOf(item))
                    \o Space \o ToStr(titleOf(item)))

\* mutant: words of three characters count (w.length >= 3)
nameWords_min3(name) ==
    LET ws == split(name, " ")
    IN  {ws[i] : i \in {j \in 1..Len(ws) : Len(ws[j]) >= 3}}

\* name.split(' ').filter(w => w.length > 3) (line 256)
nameWords(name) ==
    LET ws == split(name, " ")
    IN  {ws[i] : i \in {j \in 1..Len(ws) : Len(ws[j]) > 3}}

\* mutant: "poster print" is missing from the list of lines 238-246
hasNotRealPhoto_noPosterPrint(allText) ==
    someIncludes(notRealPhotoKeywords
                    \ {<<"p", "o", "s", "t", "e", "r", " ", "p", "r", "i", "n", "t">>},
                 allText)

\* lines 238-251: hasNotRealPhoto
hasNotRealPhoto(allText) == someIncludes(notRealPhotoKeywords, allText)

\* mutant: a university name without a word of more than three characters
\* is not checked against the text
locationOk_noWordsPasses(allText, type, name, country) ==
    IF name = <<>> THEN TRUE
    ELSE IF type = "university"
         THEN nameWords(name) = {}
              \/ \E word \in nameWords(name) : includes(allText, toLowerCase(word))
    ELSE IF type = "city"
         THEN IF ~includes(allText, toLowerCase(name)) THEN FALSE
              ELSE IF country # <<>>
                   THEN LET hasCountry == includes(allText, toLowerCase(country))
                            hasWrongCountry == someIncludes(wrongCountries, allText)
                        IN  ~(hasWrongCountry /\ ~hasCountry)
                   ELSE TRUE
    ELSE TRUE

\* mutant: the wrong-country check of lines 285-291 is missing
locationOk_noGuard(allText, type, name, country) ==
    IF name = <<>> THEN TRUE
    ELSE IF type = "university"
         THEN \E word \in nameWords(name) : includes(allText, toLowerCase(word))
    ELSE IF type = "city" THEN includes(allText, toLowerCase(name))
    ELSE TRUE

\* lines 254-299: TRUE iff the location validation lets the candidate through
locationOk(allText, type, name, country) ==
    IF name = <<>> THEN TRUE
    ELSE IF type = "university"
         THEN \E word \in nameWords(name) : includes(allText, toLowerCase(word))
    ELSE IF type = "city"
         THEN IF ~includes(allText, toLowerCase(name)) THEN FALSE
              ELSE IF country # <<>>
                   THEN LET hasCountry == includes(allText, toLowerCase(country))
                            hasWrongCountry == someIncludes(wrongCountries, allText)
                        IN  ~(hasWrongCountry /\ ~hasCountry)
                   ELSE TRUE
    ELSE TRUE

\* mutant: a candidate without campus / cityscape keyword is skipped
kindKeywordsOk_needPositive(allText, type) ==
    IF type = "university"
    THEN ~someIncludes(genericKeywords, allText) /\ someIncludes(campusKeywords, allText)
    ELSE IF type = "city"
    THEN someIncludes(cityscapeKeywords, allText)
    ELSE TRUE

\* lines 301-340: TRUE iff the kind-specific keyword check lets the candidate through
kindKeywordsOk(allText, type) ==
    IF type = "university"
    THEN ~someIncludes(genericKeywords, allText)
    ELSE IF type = "city"
    THEN ~(someIncludes(singleBuildingKeywords, allText)
           /\ ~someIncludes(cityscapeKeywords, allText))
    ELSE TRUE

\* parseInt of a provider field (lines 343-344): a number parses to itself,
\* an absent field to NaN
parseInt(v) == IF v.t = "number" THEN v ELSE NaN

\* mutant: the bounds 1.2 and 2.5 are excluded (aspect <= 1.2 || aspect >= 2.5)
aspectOk_exclusive(image) ==
    LET width == parseInt(image.width)
        height == parseInt(image.height)
    IN  IF Truthy(width) /\ Truthy(height)
        THEN ~(width.n * 10 <= 12 * height.n \/ width.n * 10 >= 25 * height.n)
        ELSE TRUE

\* lines 345-352: TRUE iff the aspect-ratio check lets the candidate through.
\* aspect < 1.2 and aspect > 2.5 are compared on integers: w*10 < 12*h, w*10 > 25*h
aspectOk(image) ==
    LET width == parseInt(image.width)
        height == parseInt(image.height)
    IN  IF Truthy(width) /\ Truthy(height)
        THEN ~(width.n * 10 < 12 * height.n \/ width.n * 10 > 25 * height.n)
        ELSE TRUE

\* mutant: the kind-specific keyword check runs before the location validation
evaluateItem_kindFirst(item, type, name, country) ==
    IF item.t # "object" THEN [out |-> "throw", stage |-> 0]
    ELSE IF item.link.t # "string" THEN [out |-> "throw", stage |-> 1]
    ELSE IF isForbidden(item.link.s) THEN [out |-> "reject", stage |-> 1]
    ELSE IF hasBadKeywords(item.link.s, type) THEN [out |-> "reject", stage |-> 2]
    ELSE IF hasNotRealPhoto(allTextOf(item)) THEN [out |-> "reject", stage |-> 2]
    ELSE IF ~kindKeywordsOk(allTextOf(item), type)
         THEN [out |-> "reject", stage |-> 4]
    ELSE IF ~locationOk(allTextOf(item), type, name, country)
         THEN [out |-> "reject", stage |-> 3]
    ELSE IF item.image.t # "object" THEN [out |-> "throw", stage |-> 5]
    ELSE IF ~aspectOk(item.image) THEN [out |-> "reject", stage |-> 5]
    ELSE [out |-> "pass", stage |-> 6]

\* mutant: the aspect-ratio check of lines 345-352 is missing
evaluateItem_noAspect(item, type, name, country) ==
    IF item.t # "object" THEN [out |-> "throw", stage |-> 0]
    ELSE IF item.link.t # "string" THEN [out |-> "throw", stage |-> 1]
    ELSE IF isForbidden(item.link.s) THEN [out |-> "reject", stage |-> 1]
    ELSE IF hasBadKeywords(item.link.s, type) THEN [out |-> "reject", stage |-> 2]
    ELSE IF hasNotRealPhoto(allTextOf(item)) THEN [out |-> "reject", stage |-> 2]
    ELSE IF ~locationOk(allTextOf(item), type, name, country)
         THEN [out |-> "reject", stage |-> 3]
    ELSE IF ~kindKeywordsOk(allTextOf(item), type)
         THEN [out |-> "reject", stage |-> 4]
    ELSE IF item.image.t # "object" THEN [out |-> "throw", stage |-> 5]
    ELSE [out |-> "pass", stage |-> 6]

\* Outcome of lines 224-352 for one item of data.items:
\*   "throw"  a TypeError is raised (caught at line 369),
\*   "reject" the item is skipped by `continue` at the given stage,
\*   "pass"   the item reaches isValidImageUrl (line 356).
\* Stages: 0 item.link, 1 isForbidden, 2 hasBadKeywords / not-real-photo,
\* 3 location, 4 kind keywords, 5 aspect ratio.
evaluateItem(item, type, name, country) ==
    IF item.t # "object" THEN [out |-> "throw", stage |-> 0]
    ELSE IF item.link.t # "string" THEN [out |-> "throw", stage |-> 1]
    ELSE IF isForbidden(item.link.s) THEN [out |-> "reject", stage |-> 1]
    ELSE IF hasBadKeywords(item.link.s, type) THEN [out |-> "reject", stage |-> 2]
    ELSE IF hasNotRealPhoto(allTextOf(item)) THEN [out |-> "reject", stage |-> 2]
    ELSE IF ~locationOk(allTextOf(item), type, name, country)
         THEN [out |-> "reject", stage |-> 3]
    ELSE IF ~kindKeywordsOk(allTextOf(item), type)
         THEN [out |-> "reject", stage |-> 4]
    ELSE IF item.image.t # "object" THEN [out |-> "throw", stage |-> 5]
    ELSE IF ~aspectOk(item.image) THEN [out |-> "reject", stage |-> 5]
    ELSE [out |-> "pass", stage |-> 6]

(***************************************************************************)
(* URL classifier                                                          *)
(***************************************************************************)
ImagePrefix == <<"i", "m", "a", "g", "e", "/">>

TextHtml == <<"t", "e", "x", "t", "/", "h", "t", "m", "l">>

ApplicationPrefix == <<"a", "p", "p", "l", "i", "c", "a", "t", "i", "o", "n", "/">>

DotSvg == <<".", "s", "v", "g">>

\* mutant: '.webp' is missing from the list of line 18
isValidImageUrlSync_noWebp(url) ==
    IF ~Truthy(url) \/ url.t # "string" THEN "false"
    ELSE LET lowerUrl == toLowerCase(url.s)
             hasImageExtension ==
                 someIncludes(imageExtensions \ {<<".", "w", "e", "b", "p">>}, lowerUrl)
             hasImagePath == someIncludes(imagePathPatterns, lowerUrl)
             hasImageCdn == someIncludes(imageCdnPatterns, lowerUrl)
         IN  IF hasImageExtension
             THEN IF endsWith(lowerUrl, DotSvg) THEN "false" ELSE "true"
             ELSE IF hasImagePath \/ hasImageCdn THEN "probe1"
             ELSE "probe2"

\* isValidImageUrl, lines 13-37 and 60: the part that runs before any await.
\* "true" / "false": returns at once; "probe1": HEAD request of line 40;
\* "probe2": HEAD request of line 62.
isValidImageUrlSync(url) ==
    IF ~Truthy(url) \/ url.t # "string" THEN "false"
    ELSE LET lowerUrl == toLowerCase(url.s)
             hasImageExtension == someIncludes(imageExtensions, lowerUrl)
             hasImagePath == someIncludes(imagePathPatterns, lowerUrl)
             hasImageCdn == someIncludes(imageCdnPatterns, lowerUrl)
         IN  IF hasImageExtension
             THEN IF endsWith(lowerUrl, DotSvg) THEN "false" ELSE "true"
             ELSE IF hasImagePath \/ hasImageCdn THEN "probe1"
             ELSE "probe2"

\* response.headers.get('content-type') || '' for a probe outcome
\* (a string header value, or null when the header is missing)
contentTypeOf(header) == ToStr(OrElse(header, Str(<<>>)))

\* lines 38-58: what follows the first HEAD request. outcome is "error" when
\* fetch rejects, else the content-type header of the response.
afterProbe1(outcome) ==
    IF outcome.t = "error" THEN "false"
    ELSE LET contentType == contentTypeOf(outcome)
         IN  IF startsWith(contentType, ImagePrefix) THEN "true"
             ELSE IF includes(contentType, TextHtml)
                     \/ includes(contentType, ApplicationPrefix) THEN "false"
             ELSE "probe2"

\* mutant: the last-resort HEAD request is awaited outside the try block
afterProbe2_unguarded(outcome) ==
    IF outcome.t = "error" THEN "throw"
    ELSE LET contentType == contentTypeOf(outcome)
         IN  IF startsWith(contentType, ImagePrefix) THEN "true"
             ELSE "false"

\* lines 61-82: what follows the last-resort HEAD request
afterProbe2(outcome) ==
    IF outcome.t = "error" THEN "false"
    ELSE LET contentType == contentTypeOf(outcome)
         IN  IF startsWith(contentType, ImagePrefix) THEN "true"
             ELSE "false"

\* CityService.validateImageUrl, cityService.js:146-155: before the await
cityValidateSync(url) ==
    IF ~Truthy(url) \/ url.t # "string" THEN "false"
    ELSE LET lowerUrl == toLowerCase(url.s)
             hasImageExtension == someIncludes(cityImageExtensions, lowerUrl)
         IN  IF hasImageExtension
             THEN IF endsWith(lowerUrl, DotSvg) THEN "false" ELSE "true"
             ELSE "probe2"

\* CityService.validateImageUrl, cityService.js:157-170: after the HEAD request
cityAfterProbe(outcome) ==
    IF outcome.t = "error" THEN "false"
    ELSE LET contentType == contentTypeOf(outcome)
         IN  IF startsWith(contentType, ImagePrefix) THEN "true"
             ELSE "false"

(***************************************************************************)
(* Inputs of the model: entity descriptors, provider items, probe outcomes *)
(***************************************************************************)
\* "a.co/v"
UrlBare == <<"a", ".", "c", "o", "/", "v">>

\* "a.co/v.jpg"
UrlJpg == UrlBare \o <<".", "j", "p", "g">>

\* "a.co/img/v"
UrlImgPath == <<"a", ".", "c", "o", "/", "i", "m", "g", "/", "v">>

\* "a.co/v.gif"
UrlGif == UrlBare \o <<".", "g", "i", "f">>

\* "a.co/map.jpg"
UrlMap == <<"a", ".", "c", "o", "/", "m", "a", "p", ".", "j", "p", "g">>

\* "a.co/v.jpg/p": an HTML page whose path contains ".jpg"
UrlJpgPage == UrlJpg \o <<"/", "p">>

\* "a.co"
SourcePage == <<"a", ".", "c", "o">>

\* "Yale Lima Peru"
TitleGood == <<"Y", "a", "l", "e", " ", "L", "i", "m", "a", " ", "P", "e", "r", "u">>

\* "Lima poster print Yale"
TitlePoster ==
    <<"L", "i", "m", "a", " ", "p", "o", "s", "t", "e", "r", " ", "p", "r", "i",
      "n", "t", " ", "Y", "a", "l", "e">>

\* "Oslo"
TitleOther == <<"O", "s", "l", "o">>

\* "Yale Lima generic one-building"
TitleGeneric ==
    <<"Y", "a", "l", "e", " ", "L", "i", "m", "a", " ", "g", "e", "n", "e", "r",
      "i", "c", " ", "o", "n", "e", "-", "b", "u", "i", "l", "d", "i", "n", "g">>

\* "POSTER PRINT Yale Lima"
TitlePosterUpper ==
    <<"P", "O", "S", "T", "E", "R", " ", "P", "R", "I", "N", "T", " ", "Y",
      "a", "l", "e", " ", "L", "i", "m", "a">>

\* "a.co/poster print"
SourcePagePoster ==
    <<"a", ".", "c", "o", "/", "p", "o", "s", "t", "e", "r", " ", "p", "r",
      "i", "n", "t">>

\* "Yale Lima Peru painting"
TitlePainting ==
    <<"Y", "a", "l", "e", " ", "L", "i", "m", "a", " ", "P", "e", "r", "u",
      " ", "p", "a", "i", "n", "t", "i", "n", "g">>

\* "Lima Tokyo"
TitleWrongCountry ==
    <<"L", "i", "m", "a", " ", "T", "o", "k", "y", "o">>

\* "Lima Tokyo Peru"
TitleWrongAndCountry ==
    <<"L", "i", "m", "a", " ", "T", "o", "k", "y", "o", " ", "P", "e", "r",
      "u">>

\* "Law in Lima"
TitleShortWord ==
    <<"L", "a", "w", " ", "i", "n", " ", "L", "i", "m", "a">>

\* "Yale Lima one-building skyline"
TitleSkyline ==
    <<"Y", "a", "l", "e", " ", "L", "i", "m", "a", " ", "o", "n", "e", "-",
      "b", "u", "i", "l", "d", "i", "n", "g", " ", "s", "k", "y", "l", "i",
      "n", "e">>

\* "Yale Lima stock-photo"
TitleStock ==
    <<"Y", "a", "l", "e", " ", "L", "i", "m", "a", " ", "s", "t", "o", "c",
      "k", "-", "p", "h", "o", "t", "o">>

\* "a.co/v.gif?x"
UrlGifQuery ==
    <<"a", ".", "c", "o", "/", "v", ".", "g", "i", "f", "?", "x">>

\* "wikimedia.org/v.jpg"
UrlWiki ==
    <<"w", "i", "k", "i", "m", "e", "d", "i", "a", ".", "o", "r", "g", "/",
      "v", ".", "j", "p", "g">>

\* "a.co/v.ico"
UrlIco ==
    <<"a", ".", "c", "o", "/", "v", ".", "i", "c", "o">>

\* item.image of a provider item: contextLink, width, height
Image(w, h) ==
    [t |-> "object", contextLink |-> Str(SourcePage), width |-> Num(w), height |-> Num(h)]

\* an item of data.items
Item(link, title, image) ==
    [t |-> "object", link |-> link, title |-> Str(title), image |-> image]

\* The provider items of the model, by id.
\*  1 passes every stage, extension URL          8 rejected at stage 4 (kind keywords)
\*  2 passes stages 1-5, URL without pattern     9 rejected at stage 5 (aspect 9:16)
\*  3 passes stages 1-5, URL with /img/ path    10 no image object: TypeError at line 343
\*  4 rejected at stage 1 (.gif)                11 no link: TypeError in isForbidden
\*  5 rejected at stage 2 (bad URL keyword)     12 null item: TypeError at line 224
\*  6 rejected at stage 2 (poster print)        13 passes stages 1-5, page URL that
\*  7 rejected at stage 3 (subject)                contains ".jpg"
\* 14 "POSTER PRINT" in the title              23 aspect 2.501
\* 15 "poster print" in the source page        24 width missing
\* 16 "painting" in the title                  25 only a 3-letter name word
\* 17 wrong-country token, no country          26 one-building and skyline
\* 18 wrong-country token and country          27 stock-photo
\* 19 aspect 1.2     20 aspect 2.5             28 .gif with a query string
\* 21 aspect 0.8     22 aspect 1.199           29 blacklisted domain   30 .ico
Cand ==
    << Item(Str(UrlJpg), TitleGood, Image(1600, 900)),
       Item(Str(UrlBare), TitleGood, Image(1600, 900)),
       Item(Str(UrlImgPath), TitleGood, Image(1600, 900)),
       Item(Str(UrlGif), TitleGood, Image(1600, 900)),
       Item(Str(UrlMap), TitleGood, Image(1600, 900)),
       Item(Str(UrlJpg), TitlePoster, Image(1600, 900)),
       Item(Str(UrlJpg), TitleOther, Image(1600, 900)),
       Item(Str(UrlJpg), TitleGeneric, Image(1600, 900)),
       Item(Str(UrlJpg), TitleGood, Image(900, 1600)),
       Item(Str(UrlJpg), TitleGood, Undefined),
       Item(Undefined, TitleGood, Image(1600, 900)),
       Null,
       Item(Str(UrlJpgPage), TitleGood, Image(1600, 900)),
       Item(Str(UrlJpg), TitlePosterUpper, Image(1600, 900)),
       Item(Str(UrlJpg), TitleGood,
            [t |-> "object", contextLink |-> Str(SourcePagePoster),
             width |-> Num(1600), height |-> Num(900)]),
       Item(Str(UrlJpg), TitlePainting, Image(1600, 900)),
       Item(Str(UrlJpg), TitleWrongCountry, Image(1600, 900)),
       Item(Str(UrlJpg), TitleWrongAndCountry, Image(1600, 900)),
       Item(Str(UrlJpg), TitleGood, Image(1200, 1000)),
       Item(Str(UrlJpg), TitleGood, Image(2500, 1000)),
       Item(Str(UrlJpg), TitleGood, Image(800, 1000)),
       Item(Str(UrlJpg), TitleGood, Image(1199, 1000)),
       Item(Str(UrlJpg), TitleGood, Image(2501, 1000)),
       Item(Str(UrlJpg), TitleGood,
            [t |-> "object", contextLink |-> Str(SourcePage),
             width |-> Undefined, height |-> Num(900)]),
       Item(Str(UrlJpg), TitleShortWord, Image(1600, 900)),
       Item(Str(UrlJpg), TitleSkyline, Image(1600, 900)),
       Item(Str(UrlJpg), TitleStock, Image(1600, 900)),
       Item(Str(UrlGifQuery), TitleGood, Image(1600, 900)),
       Item(Str(UrlWiki), TitleGood, Image(1600, 900)),
       Item(Str(UrlIco), TitleGood, Image(1600, 900)) >>

CandIds == 1..Len(Cand)

\* the items that occur in responses of more than one item: 1..MaxListCand
MaxListCand == 13

\* entity descriptors: the arguments of searchUniversityImage / searchCityImage
Descriptor(type, name, country) == [type |-> type, name |-> name, country |-> country]

Descriptors ==
    << Descriptor("university", <<"Y", "a", "l", "e", " ", "L", "a", "w">>, <<>>),
       Descriptor("university", <<"M", "I", "T">>, <<>>),
       Descriptor("city", <<"L", "i", "m", "a">>, <<"P", "e", "r", "u">>),
       Descriptor("city", <<"L", "i", "m", "a">>, <<>>),
       Descriptor("city", <<>>, <<>>),
       Descriptor("university", <<>>, <<>>) >>

DescIds == 1..Len(Descriptors)

\* outcomes of a HEAD request: fetch rejects, or the response's content-type
\* header (null when the header is missing)
NetworkError == [t |-> "error"]

ProbeOutcomes ==
    { NetworkError,
      Null,
      Str(<<"i", "m", "a", "g", "e", "/", "p", "n", "g">>),
      Str(<<"t", "e", "x", "t", "/", "h", "t", "m", "l">>),
      Str(<<"a", "p", "p", "l", "i", "c", "a", "t", "i", "o", "n", "/", "p", "d", "f">>),
      Str(<<"t", "e", "x", "t", "/", "c", "s", "s">>) }

\* arguments of a standalone isValidImageUrl / validateImageUrl call
UrlInputs ==
    { Null, Undefined, Num(7), Str(<<>>),
      Str(UrlJpg), Str(UrlBare), Str(UrlImgPath), Str(UrlJpgPage),
      Str(<<"A", ".", "C", "O", "/", "V", ".", "P", "N", "G">>),
      Str(UrlBare \o <<".", "w", "e", "b", "p">>),
      Str(UrlBare \o <<".", "j", "p", "e", "g">>),
      Str(UrlGif),
      Str(UrlBare \o <<".", "b", "m", "p">>),
      Str(UrlBare \o <<".", "t", "i", "f", "f">>),
      Str(UrlBare \o <<".", "t", "i", "f">>),
      Str(UrlBare \o DotSvg),
      Str(UrlBare \o DotSvg \o <<"?", "x">>),
      Str(<<"c", "d", "n", ".">> \o UrlBare) }

\* the responses' item lists: every item alone, every item followed by item 1,
\* and all lists of 2..n of the items 1..MaxListCand
ItemLists(n) ==
    {<<c>> : c \in CandIds}
        \cup {<<c, 1>> : c \in IF n >= 2 THEN CandIds ELSE {}}
        \cup UNION {[1..k -> 1..MaxListCand] : k \in 2..n}

\* the outcomes of one provider call (lines 209-220):
\*   "reject"  fetch rejects (transport error),   "status"  response.ok is false,
\*   "badjson" response.json() rejects,           "ok"      a parsed body;
\*   hasItems is FALSE when data.items is missing, items is the list of item ids
Responses ==
    {[kind |-> "reject"], [kind |-> "status"], [kind |-> "badjson"],
     [kind |-> "ok", hasItems |-> FALSE, items |-> <<>>],
     [kind |-> "ok", hasItems |-> TRUE, items |-> <<>>]}
    \cup {[kind |-> "ok", hasItems |-> TRUE, items |-> l] : l \in ItemLists(MaxItems)}

\* EvalTable[d][c]: evaluateItem for every descriptor d and item c of the model
EvalTable ==
    [d \in DescIds |->
        [c \in CandIds |->
            evaluateItem(Cand[c], Descriptors[d].type, Descriptors[d].name,
                         Descriptors[d].country)]]

(***************************************************************************)
(* State                                                                   *)
(***************************************************************************)
VARIABLES
    mode,      \* entry point called: "discover", "validate" (isValidImageUrl),
               \* "geminiValidate" (GeminiService.validateImageUrl),
               \* "cityValidate" (CityService.validateImageUrl)
    desc,      \* discover: index of the entity descriptor (0 otherwise)
    pc,        \* position of the call
    si,        \* executeStrategies: index of the strategy of the outer loop
    items,     \* executeStrategies: data.items of the current strategy (item ids)
    idx,       \* executeStrategies: index of the item of the inner loop
    imageUrl,  \* argument of the classifier call in progress
    probes,    \* outcomes of the HEAD requests issued by that classifier call
    verdict,   \* return value of the classifier call
    result,    \* return value of the entry point, once pc = "done"
    queried,   \* history: strategy indices a provider query was issued for
    lastResp,  \* history: kind of the last provider response handled
    evalOut,   \* history: how the item evaluated last in the current response
               \* ended (the rejection logged, the TypeError raised, or "pass")
    caller,    \* the extraction in progress: "CityService" (extractCityData),
               \* "GeminiService" (extractUniversityData), or "none"
    xpc,       \* position of the extraction (which await it is at)
    imageSearchService,  \* this.imageSearchService is set (a provider is configured)
    validatedData,       \* the image fields of the record being built
    universityImage,     \* extractUniversityData: result of searchUniversityImage
    verified,  \* history: URLs returned by a search, or for which the
               \* standalone validation returned true, during the extraction
    config,    \* the fields of the ImageSearchService object (lines 3-5)
    calls,     \* concurrent searches on one service: the local state of each
    req,       \* the HTTP request a controller is handling: route and body
    res,       \* the statuses of the responses sent for the request
    cpc,       \* position of the controller's handler
    serviceCalls  \* history: number of calls of the extraction service

\* the variables outside the call in progress: those of an extraction, the
\* service object and the concurrent searches
callerVars ==
    <<caller, xpc, imageSearchService, validatedData, universityImage, verified,
      config, calls, req, res, cpc, serviceCalls>>

\* the variables an extraction leaves alone
outerVars == <<config, calls, req, res, cpc, serviceCalls>>

vars ==
    <<mode, desc, pc, si, items, idx, imageUrl, probes, verdict, result, queried,
      lastResp, evalOut, caller, xpc, imageSearchService, validatedData,
      universityImage, verified, config, calls, req, res, cpc, serviceCalls>>

\* constructor (lines 2-6): the fields of the service object
ServiceConfig ==
    [apiKey |-> "apiKey", searchEngineId |-> "searchEngineId",
     baseUrl |-> "https://www.googleapis.com/customsearch/v1"]

\* number of strategies built by searchUniversityImage / searchCityImage
NumStrategies == 5

(***************************************************************************)
(* The strategies (lines 97-123 and 148-184). A query is the sequence of   *)
(* the parts of its template literal: literal text, and the interpolated   *)
(* arguments.                                                              *)
(***************************************************************************)
Lit(t) == [kind |-> "lit", role |-> "", text |-> t, s |-> <<>>]
Arg(r, chars) == [kind |-> "arg", role |-> r, text |-> "", s |-> chars]

\* the character " of a template
Quote == Lit("\"")

\* `"${universityName}" ...`: the template of every university query
universityQuery(universityName, rest) ==
    <<Quote, Arg("universityName", universityName), Quote, Lit(rest)>>

\* mutant: the location string of line 142 is used in the query, unquoted
cityQuery_location(cityName, country, rest) ==
    IF country # <<>>
    THEN <<Arg("cityName", cityName), Lit(" "), Arg("country", country), Lit(rest)>>
    ELSE <<Arg("cityName", cityName), Lit(rest)>>

\* `country ? `"${cityName}" "${country}" ...` : `"${cityName}" ...``: the
\* template of every city query (lines 151-153, 158-160, 165-167, 172-174,
\* 179-181); the text after the quoted arguments is the same in both branches
cityQuery(cityName, country, rest) ==
    IF country # <<>>
    THEN <<Quote, Arg("cityName", cityName), Quote, Lit(" "),
           Quote, Arg("country", country), Quote, Lit(rest)>>
    ELSE <<Quote, Arg("cityName", cityName), Quote, Lit(rest)>>

\* searchUniversityImage, lines 97-123
universityStrategies(universityName) ==
    << [name |-> "Distinctive Campus Building (Best)",
       query |-> universityQuery(universityName,
          " campus building distinctive architecture exterior photo -logo -crest -map -black -white -vintage -drawing -plan -diagram -person -people -crowd -pedestrian -tourist -student -generic -frame -framed -shirt -merchandise -print -rendered -mockup -template")],
      [name |-> "Iconic Main Building",
       query |-> universityQuery(universityName,
          " main building iconic architecture campus exterior photo -sports -football -stadium -crowd -logo -person -people -pedestrian -tourist -student -group -generic -frame -framed -shirt -merchandise -print -rendered -mockup -template")],
      [name |-> "Campus Architecture Building",
       query |-> universityQuery(universityName,
          " campus architecture building exterior daylight photo -interior -books -logo -person -people -crowd -pedestrian -generic -frame -framed -shirt -merchandise -print -rendered -mockup -template")],
      [name |-> "University Building Exterior",
       query |-> universityQuery(universityName,
          " university building exterior architecture photo -logo -crest -person -people -portrait -indoor -crowd -pedestrian -tourist -student -group -generic -frame -framed -shirt -merchandise -print -rendered -mockup -template")],
      [name |-> "Campus View with Building",
       query |-> universityQuery(universityName,
          " campus view building architecture photo -map -layout -plan -diagram -person -people -crowd -generic -frame -framed -shirt -merchandise -print -rendered -mockup -template")] >>

\* searchCityImage, lines 148-184
cityStrategies(cityName, country) ==
    << [name |-> "Cityscape Skyline (Best)",
       query |-> cityQuery(cityName, country,
          " city skyline many buildings cityscape photo -map -weather -radar -person -people -crowd -pedestrian -tourist -visitor -walking -standing -single -one -frame -framed -shirt -merchandise -print -rendered -mockup -template")],
      [name |-> "Waterfront Cityscape",
       query |-> cityQuery(cityName, country,
          " waterfront cityscape buildings skyline photo -map -aerial -person -people -crowd -pedestrian -tourist -visitor -walking -single -one -frame -framed -shirt -merchandise -print -rendered -mockup -template")],
      [name |-> "Urban Cityscape",
       query |-> cityQuery(cityName, country,
          " urban cityscape many buildings city view daylight photo -traffic -map -person -people -crowd -pedestrian -tourist -visitor -walking -single -one -frame -framed -shirt -merchandise -print -rendered -mockup -template")],
      [name |-> "Landmark with City Buildings",
       query |-> cityQuery(cityName, country,
          " landmark cityscape buildings urban view photo -map -plan -person -people -crowd -pedestrian -visitor -single -one -frame -framed -shirt -merchandise -print -rendered -mockup -template")],
      [name |-> "Downtown Cityscape",
       query |-> cityQuery(cityName, country,
          " downtown cityscape buildings architecture photo -map -person -people -crowd -pedestrian -visitor -single -one -frame -framed -shirt -merchandise -print -rendered -mockup -template")] >>

\* the strategies executeStrategies receives for descriptor d (lines 125, 186)
StrategiesOf(d) ==
    IF Descriptors[d].type = "university"
    THEN universityStrategies(Descriptors[d].name)
    ELSE cityStrategies(Descriptors[d].name, Descriptors[d].country)

NoEval == [out |-> "none", stage |-> 0]

\* line 358: the item was skipped because isValidImageUrl returned false
NotDirect == [out |-> "reject", stage |-> 6]

NoResult == [t |-> "pending"]

(***************************************************************************)
(* executeStrategies: control flow (lines 194-376)                         *)
(***************************************************************************)
\* a position of executeStrategies: the values of pc, si, items, idx, result, queried
At(p, i, its, k, r, q) ==
    [pc |-> p, si |-> i, items |-> its, idx |-> k, result |-> r, queried |-> q]

\* end of one iteration of the outer loop (line 372): the next strategy's query
\* is issued (line 209), or the loop ends and null is returned (line 375)
nextStrategy(i, q) ==
    IF i < NumStrategies
    THEN At("fetch", i + 1, <<>>, 0, NoResult, Append(q, i + 1))
    ELSE At("done", i, <<>>, 0, Null, q)

\* mutant: the catch block gives up and returns null
catchStrategy_abort(i, q) == At("done", i, <<>>, 0, Null, q)

\* mutant: no try/catch around the strategy, the error leaves executeStrategies
catchStrategy_rethrow(i, q) == At("threw", i, <<>>, 0, NoResult, q)

\* catch (error) of lines 369-371: log, then fall out of the try block
catchStrategy(i, q) == nextStrategy(i, q)

\* `continue` of the inner loop (line 223): the next item, or the end of the
\* try block when the items are exhausted
nextCandidate(i, its, k, q) ==
    IF k < Len(its)
    THEN At("eval", i, its, k + 1, NoResult, q)
    ELSE nextStrategy(i, q)

\* mutant: a non-success status ends the search (`return null` at line 213)
afterFetch_statusAborts(resp, i, q) ==
    IF resp.kind = "reject" THEN catchStrategy(i, q)
    ELSE IF resp.kind = "status" THEN At("done", i, <<>>, 0, Null, q)
    ELSE IF resp.kind = "badjson" THEN catchStrategy(i, q)
    ELSE IF ~resp.hasItems \/ Len(resp.items) = 0 THEN nextStrategy(i, q)
    ELSE At("eval", i, resp.items, 1, NoResult, q)

\* lines 209-223: what follows the provider's response to the query of strategy i
afterFetch(resp, i, q) ==
    IF resp.kind = "reject" THEN catchStrategy(i, q)
    ELSE IF resp.kind = "status" THEN nextStrategy(i, q)
    ELSE IF resp.kind = "badjson" THEN catchStrategy(i, q)
    ELSE IF ~resp.hasItems \/ Len(resp.items) = 0 THEN nextStrategy(i, q)
    ELSE At("eval", i, resp.items, 1, NoResult, q)

\* lines 224-356 for item k: the item throws, is skipped, or reaches isValidImageUrl
afterEval(o, i, its, k, q) ==
    IF o.out = "throw" THEN catchStrategy(i, q)
    ELSE IF o.out = "reject" THEN nextCandidate(i, its, k, q)
    ELSE At("valid", i, its, k, NoResult, q)

\* mutant: `break` instead of `return imageUrl` at line 366
afterValid_break(v, link, i, its, k, q) ==
    IF ~v THEN nextCandidate(i, its, k, q)
    ELSE nextStrategy(i, q)

\* lines 357-366: isValidImageUrl has returned v for item k
afterValid(v, link, i, its, k, q) ==
    IF ~v THEN nextCandidate(i, its, k, q)
    ELSE At("done", i, its, k, link, q)

\* kind of a provider response, for the history variable lastResp
RespKind(resp) ==
    IF resp.kind # "ok" THEN resp.kind
    ELSE IF ~resp.hasItems THEN "noitems"
    ELSE IF resp.items = <<>> THEN "empty"
    ELSE "items"

Goto(c) ==
    /\ pc' = c.pc
    /\ si' = c.si
    /\ items' = c.items
    /\ idx' = c.idx
    /\ result' = c.result
    /\ queried' = c.queried

(***************************************************************************)
(* Initial states: one call of one entry point                             *)
(***************************************************************************)
Init ==
    /\ \/ /\ mode = "discover"
          /\ desc \in DescIds
          /\ imageUrl = Undefined
          /\ pc = "search"
       \/ /\ mode \in {"validate", "geminiValidate"}
          /\ desc = 0
          /\ imageUrl \in UrlInputs
          /\ pc = "valid"
       \/ /\ mode = "cityValidate"
          /\ desc = 0
          /\ imageUrl \in UrlInputs
          /\ pc = "cvalid"
    /\ si = 0
    /\ items = <<>>
    /\ idx = 0
    /\ probes = <<>>
    /\ verdict = FALSE
    /\ result = NoResult
    /\ queried = <<>>
    /\ lastResp = "none"
    /\ evalOut = NoEval
    /\ caller = "none"
    /\ xpc = "none"
    /\ imageSearchService = TRUE
    /\ validatedData = Undefined
    /\ universityImage = Undefined
    /\ verified = {}
    /\ config = ServiceConfig
    /\ calls = <<>>
    /\ req = Undefined
    /\ res = <<>>
    /\ cpc = "none"
    /\ serviceCalls = 0

(***************************************************************************)
(* Actions                                                                 *)
(***************************************************************************)
\* searchUniversityImage / searchCityImage (lines 91-126, 133-187): build the
\* strategies, enter executeStrategies and issue the first query (line 209)
Search ==
    /\ pc = "search"
    /\ Goto(At("fetch", 1, <<>>, 0, NoResult, <<1>>))
    /\ UNCHANGED <<mode, desc, imageUrl, probes, verdict, lastResp, evalOut>>
    /\ UNCHANGED callerVars

\* the provider answers the query of strategy si (lines 209-223)
ProviderResponds ==
    /\ pc = "fetch"
    /\ \E resp \in Responses :
          /\ Goto(afterFetch(resp, si, queried))
          /\ lastResp' = RespKind(resp)
    /\ imageUrl' = Undefined
    /\ probes' = <<>>
    /\ verdict' = FALSE
    /\ evalOut' = NoEval
    /\ UNCHANGED <<mode, desc>>
    /\ UNCHANGED callerVars

\* one iteration of the inner loop up to the call of isValidImageUrl (lines 224-356)
EvalCandidate ==
    /\ pc = "eval"
    /\ LET o == EvalTable[desc][items[idx]]
           c == afterEval(o, si, items, idx, queried)
       IN  /\ Goto(c)
           /\ evalOut' = IF c.pc \in {"eval", "valid"} THEN o ELSE NoEval
           /\ imageUrl' = IF c.pc = "valid" THEN Cand[items[idx]].link ELSE Undefined
    /\ probes' = <<>>
    /\ verdict' = FALSE
    /\ UNCHANGED <<mode, desc, lastResp>>
    /\ UNCHANGED callerVars

\* the classifier's next position: it returns, or awaits a HEAD request
\* ("throw": an exception leaves the classifier; no path of the code raises one)
Classified(r) ==
    /\ pc' = IF r \in {"true", "false"} THEN "ret"
             ELSE IF r = "throw" THEN "threw"
             ELSE r
    /\ verdict' = (r = "true")

\* isValidImageUrl up to its first await or return (lines 13-37); the same
\* text is GeminiService.validateImageUrl (schemas.js:995-1020)
Classify ==
    /\ pc = "valid"
    /\ Classified(isValidImageUrlSync(imageUrl))
    /\ UNCHANGED <<mode, desc, si, items, idx, imageUrl, probes, result, queried,
                   lastResp, evalOut>>
    /\ UNCHANGED callerVars

\* a HEAD request of isValidImageUrl completes (lines 40-57, 62-82;
\* schemas.js:1021-1065 for GeminiService.validateImageUrl)
HeadResponds ==
    /\ pc \in {"probe1", "probe2"}
    /\ \E outcome \in ProbeOutcomes :
          /\ probes' = Append(probes, outcome)
          /\ Classified(IF pc = "probe1" THEN afterProbe1(outcome)
                                         ELSE afterProbe2(outcome))
    /\ UNCHANGED <<mode, desc, si, items, idx, imageUrl, result, queried, lastResp, evalOut>>
    /\ UNCHANGED callerVars

\* CityService.validateImageUrl up to its await or return (cityService.js:146-155)
CityClassify ==
    /\ pc = "cvalid"
    /\ LET r == cityValidateSync(imageUrl)
       IN  /\ pc' = IF r \in {"true", "false"} THEN "ret"
                    ELSE IF r = "throw" THEN "threw"
                    ELSE "cprobe"
           /\ verdict' = (r = "true")
    /\ UNCHANGED <<mode, desc, si, items, idx, imageUrl, probes, result, queried,
                   lastResp, evalOut>>
    /\ UNCHANGED callerVars

\* the HEAD request of CityService.validateImageUrl completes (cityService.js:157-170)
CityHeadResponds ==
    /\ pc = "cprobe"
    /\ \E outcome \in ProbeOutcomes :
          /\ probes' = Append(probes, outcome)
          /\ verdict' = (cityAfterProbe(outcome) = "true")
          /\ pc' = IF cityAfterProbe(outcome) = "throw" THEN "threw" ELSE "ret"
    /\ UNCHANGED <<mode, desc, si, items, idx, imageUrl, result, queried, lastResp, evalOut>>
    /\ UNCHANGED callerVars

\* the classifier returns to its caller: executeStrategies (lines 357-366),
\* or the caller of a standalone validation
Resume ==
    /\ pc = "ret"
    /\ LET c == IF mode = "discover"
                THEN afterValid(verdict, imageUrl, si, items, idx, queried)
                ELSE At("done", si, items, idx, Bool(verdict), queried)
       IN  /\ Goto(c)
           /\ IF c.pc = "done" /\ c.result # Null
              THEN UNCHANGED <<imageUrl, probes, verdict, evalOut>>
              ELSE /\ imageUrl' = Undefined
                   /\ probes' = <<>>
                   /\ verdict' = FALSE
                   /\ evalOut' = IF c.pc = "eval" THEN NotDirect ELSE NoEval
    /\ UNCHANGED <<mode, desc, lastResp>>
    /\ UNCHANGED callerVars

Next ==
    \/ Search
    \/ ProviderResponds
    \/ EvalCandidate
    \/ Classify
    \/ HeadResponds
    \/ CityClassify
    \/ CityHeadResponds
    \/ Resume

Spec == Init /\ [][Next]_vars

(***************************************************************************)
(* The callers: CityService.extractCityData (cityService.js:373-395) and   *)
(* GeminiService.extractUniversityData (schemas.js:1562-1626), from the    *)
(* point where the parsed record exists                                    *)
(***************************************************************************)
EmptyString == Str(<<>>)

\* values of an image field in the record parsed from the model's answer
\* (z.string(), schemas.js:187 and 191): empty, a URL with an image
\* extension, a URL that needs a HEAD request
GeminiImages == {EmptyString, Str(UrlJpg), Str(UrlBare)}

\* the descriptors the extractions search with: validatedData.university
\* (schemas.js:1567) and the city and country (schemas.js:1572, cityService.js:376)
ExtractUniversity == 1
ExtractCity == 3

\* the image fields of the parsed records
ParsedRecords ==
    [caller : {"CityService"},
     data : [university_image : {Undefined}, city_image : GeminiImages]]
    \cup
    [caller : {"GeminiService"},
     data : { [university_image |-> EmptyString, city_image |-> EmptyString],
              [university_image |-> Str(UrlJpg), city_image |-> Str(UrlBare)],
              [university_image |-> Str(UrlBare), city_image |-> EmptyString],
              [university_image |-> EmptyString, city_image |-> Str(UrlJpg)] }]

ExtractInit ==
    /\ \E r \in ParsedRecords :
          /\ caller = r.caller
          /\ validatedData = r.data
    /\ imageSearchService \in BOOLEAN
    /\ xpc = "start"
    /\ universityImage = Undefined
    /\ verified = {}
    /\ config = ServiceConfig
    /\ calls = <<>>
    /\ req = Undefined
    /\ res = <<>>
    /\ cpc = "none"
    /\ serviceCalls = 0
    /\ pc = "idle"
    /\ mode = "discover"
    /\ desc = 0
    /\ imageUrl = Undefined
    /\ si = 0
    /\ items = <<>>
    /\ idx = 0
    /\ probes = <<>>
    /\ verdict = FALSE
    /\ result = NoResult
    /\ queried = <<>>
    /\ lastResp = "none"
    /\ evalOut = NoEval

\* schemas.js:1578-1594: the field is the search's result, or '' when it is null
publishFound(found) == IF Truthy(found) THEN found ELSE EmptyString

\* cityService.js:377-383: the search's result replaces the field, or the
\* field keeps the parsed value when the search found nothing
keepOrReplace(found, current) == IF Truthy(found) THEN found ELSE current

\* mutant: the field keeps its value whatever the validation said
publishValidated_keep(isValid, current) == current

\* cityService.js:388-391, schemas.js:1602-1605 and 1615-1618: the field is
\* cleared when the validation returned false
publishValidated(isValid, current) ==
    IF ~isValid THEN EmptyString ELSE current

\* a call of searchUniversityImage / searchCityImage with descriptor d
CallSearch(d) ==
    /\ mode' = "discover"
    /\ desc' = d
    /\ pc' = "search"
    /\ imageUrl' = Undefined
    /\ si' = 0
    /\ items' = <<>>
    /\ idx' = 0
    /\ probes' = <<>>
    /\ verdict' = FALSE
    /\ result' = NoResult
    /\ queried' = <<>>
    /\ lastResp' = "none"
    /\ evalOut' = NoEval

\* a call of this.validateImageUrl(u): CityService's own method
\* (cityService.js:145) or GeminiService's (schemas.js:995)
CallValidate(u) ==
    /\ mode' = IF caller = "CityService" THEN "cityValidate" ELSE "geminiValidate"
    /\ desc' = 0
    /\ pc' = IF caller = "CityService" THEN "cvalid" ELSE "valid"
    /\ imageUrl' = u
    /\ si' = 0
    /\ items' = <<>>
    /\ idx' = 0
    /\ probes' = <<>>
    /\ verdict' = FALSE
    /\ result' = NoResult
    /\ queried' = <<>>
    /\ lastResp' = "none"
    /\ evalOut' = NoEval

\* `return validatedData` (cityService.js:395, schemas.js:1626)
Return ==
    /\ pc' = "idle"
    /\ xpc' = "returned"
    /\ UNCHANGED <<mode, desc, si, items, idx, imageUrl, probes, verdict, result,
                   queried, lastResp, evalOut>>

\* the city_image check without a search provider, for the record vd:
\* cityService.js:386-391 (a falsy field is left alone) and
\* schemas.js:1611-1623 (a falsy field becomes '')
ValidateCityImage(vd) ==
    IF Truthy(vd.city_image)
    THEN /\ CallValidate(vd.city_image)
         /\ xpc' = "validateCityImage"
         /\ validatedData' = vd
    ELSE /\ validatedData' = IF caller = "GeminiService"
                             THEN [vd EXCEPT !.city_image = EmptyString]
                             ELSE vd
         /\ Return

\* schemas.js:1598-1610: the university_image check without a search provider
ValidateUniversityImage(vd) ==
    IF Truthy(vd.university_image)
    THEN /\ CallValidate(vd.university_image)
         /\ xpc' = "validateUniversityImage"
         /\ validatedData' = vd
    ELSE ValidateCityImage([vd EXCEPT !.university_image = EmptyString])

\* the URLs a finished call has vouched for: the search's result, or the
\* URL for which the validation returned true
Vouched ==
    IF mode = "discover"
    THEN IF Truthy(result) THEN {result} ELSE {}
    ELSE IF result = Bool(TRUE) THEN {imageUrl} ELSE {}

\* cityService.js:373-376 and 385-387, schemas.js:1563-1567 and 1597-1600:
\* the extraction up to its first await
ExtractStart ==
    /\ xpc = "start"
    /\ IF imageSearchService
       THEN /\ CallSearch(IF caller = "CityService" THEN ExtractCity
                                                    ELSE ExtractUniversity)
            /\ xpc' = IF caller = "CityService" THEN "searchCityImage"
                                                ELSE "searchUniversityImage"
            /\ UNCHANGED validatedData
       ELSE IF caller = "CityService"
            THEN ValidateCityImage(validatedData)
            ELSE ValidateUniversityImage(validatedData)
    /\ UNCHANGED <<caller, imageSearchService, universityImage, verified>>
    /\ UNCHANGED outerVars

\* the awaited call has returned (or thrown: the catch blocks at
\* cityService.js:396-401 and schemas.js:1627-1632 rethrow): the extraction
\* runs to its next await or to its return
ExtractResume ==
    /\ xpc \in {"searchUniversityImage", "searchCityImage",
                "validateUniversityImage", "validateCityImage"}
    /\ pc \in {"done", "threw"}
    /\ IF pc = "threw"
       THEN /\ xpc' = "threw"
            /\ pc' = "idle"
            /\ UNCHANGED <<mode, desc, si, items, idx, imageUrl, probes, verdict,
                           result, queried, lastResp, evalOut>>
            /\ UNCHANGED <<validatedData, universityImage, verified>>
       ELSE /\ verified' = verified \cup Vouched
            /\ IF xpc = "searchUniversityImage"
               THEN /\ universityImage' = result
                    /\ CallSearch(ExtractCity)
                    /\ xpc' = "searchCityImage"
                    /\ UNCHANGED validatedData
               ELSE IF xpc = "searchCityImage"
               THEN /\ validatedData' =
                         IF caller = "GeminiService"
                         THEN [university_image |-> publishFound(universityImage),
                               city_image |-> publishFound(result)]
                         ELSE [validatedData EXCEPT
                                  !.city_image = keepOrReplace(result, @)]
                    /\ Return
                    /\ UNCHANGED universityImage
               ELSE IF xpc = "validateUniversityImage"
               THEN /\ ValidateCityImage(
                         [validatedData EXCEPT !.university_image =
                              publishValidated(result = Bool(TRUE), @)])
                    /\ UNCHANGED universityImage
               ELSE /\ validatedData' =
                         [validatedData EXCEPT !.city_image =
                              publishValidated(result = Bool(TRUE), @)]
                    /\ Return
                    /\ UNCHANGED universityImage
    /\ UNCHANGED <<caller, imageSearchService>>
    /\ UNCHANGED outerVars

ExtractNext ==
    \/ Search
    \/ ProviderResponds
    \/ EvalCandidate
    \/ Classify
    \/ HeadResponds
    \/ CityClassify
    \/ CityHeadResponds
    \/ Resume
    \/ ExtractStart
    \/ ExtractResume

ExtractSpec == ExtractInit /\ [][ExtractNext]_vars

(***************************************************************************)
(* Concurrent searches on one ImageSearchService. A search keeps its state *)
(* in the locals of executeStrategies (lines 194-376) and reads the fields *)
(* of the service (lines 199-201); it runs without interruption from one   *)
(* await to the next (lines 209, 216, 40, 62).                             *)
(***************************************************************************)
CallIds == {1, 2}

\* the descriptors of the concurrent searches
PairDescs == {1, 3}

\* provider responses and HEAD outcomes delivered to the concurrent searches
PairResponses ==
    {[kind |-> "status"],
     [kind |-> "ok", hasItems |-> TRUE, items |-> <<3>>],
     [kind |-> "ok", hasItems |-> TRUE, items |-> <<3, 1>>]}

PairProbeOutcomes ==
    {Null, Str(<<"i", "m", "a", "g", "e", "/", "p", "n", "g">>)}

\* the locals of a search with descriptor d when it is called; heard is the
\* history of what the network delivered to it, probed the history of the
\* URLs it sent a HEAD request for
StartCall(d) ==
    [desc |-> d, at |-> At("search", 0, <<>>, 0, NoResult, <<>>),
     imageUrl |-> Undefined, verdict |-> FALSE, heard |-> <<>>, probed |-> <<>>]

\* the code between two awaits: one step of lines 224-356 for the current
\* item, of isValidImageUrl before its await (lines 13-37), or of lines 357-366
SyncStep(cs) ==
    IF cs.at.pc = "eval"
    THEN LET o == EvalTable[cs.desc][cs.at.items[cs.at.idx]]
             c == afterEval(o, cs.at.si, cs.at.items, cs.at.idx, cs.at.queried)
         IN  [cs EXCEPT !.at = c,
                        !.imageUrl = IF c.pc = "valid"
                                     THEN Cand[cs.at.items[cs.at.idx]].link
                                     ELSE Undefined,
                        !.verdict = FALSE]
    ELSE IF cs.at.pc = "valid"
    THEN LET r == isValidImageUrlSync(cs.imageUrl)
         IN  [cs EXCEPT !.at.pc = IF r \in {"true", "false"} THEN "ret" ELSE r,
                        !.verdict = (r = "true"),
                        !.probed = IF r \in {"true", "false"} THEN @
                                   ELSE Append(@, cs.imageUrl)]
    ELSE LET c == afterValid(cs.verdict, cs.imageUrl, cs.at.si, cs.at.items,
                             cs.at.idx, cs.at.queried)
         IN  [cs EXCEPT !.at = c,
                        !.imageUrl = IF c.pc = "done" THEN @ ELSE Undefined]

RECURSIVE RunToAwait(_)
\* the search runs until it awaits the network or returns
RunToAwait(cs) ==
    IF cs.at.pc \in {"eval", "valid", "ret"} THEN RunToAwait(SyncStep(cs))
    ELSE cs

\* the awaited fetch settles with input: the provider's response to the
\* query (lines 209-223) or the outcome of a HEAD request (lines 40-58, 62-78)
Deliver(cs, input) ==
    IF cs.at.pc = "fetch"
    THEN [cs EXCEPT !.at = afterFetch(input, cs.at.si, cs.at.queried),
                    !.heard = Append(@, input)]
    ELSE LET r == IF cs.at.pc = "probe1" THEN afterProbe1(input)
                                         ELSE afterProbe2(input)
         IN  [cs EXCEPT !.at.pc = IF r \in {"true", "false"} THEN "ret" ELSE r,
                        !.verdict = (r = "true"),
                        !.heard = Append(@, input),
                        !.probed = IF r \in {"true", "false"} THEN @
                                   ELSE Append(@, cs.imageUrl)]

PairInit ==
    /\ \E d \in PairDescs : calls = [c \in CallIds |-> StartCall(IF c = 1 THEN d ELSE ExtractCity)]
    /\ config = ServiceConfig
    /\ req = Undefined
    /\ res = <<>>
    /\ cpc = "none"
    /\ serviceCalls = 0
    /\ caller = "none"
    /\ xpc = "none"
    /\ imageSearchService = TRUE
    /\ validatedData = Undefined
    /\ universityImage = Undefined
    /\ verified = {}
    /\ pc = "idle"
    /\ mode = "discover"
    /\ desc = 0
    /\ imageUrl = Undefined
    /\ si = 0
    /\ items = <<>>
    /\ idx = 0
    /\ probes = <<>>
    /\ verdict = FALSE
    /\ result = NoResult
    /\ queried = <<>>
    /\ lastResp = "none"
    /\ evalOut = NoEval

\* the variables the concurrent searches do not use
soloVars ==
    <<mode, desc, pc, si, items, idx, imageUrl, probes, verdict, result, queried,
      lastResp, evalOut, caller, xpc, imageSearchService, validatedData,
      universityImage, verified, req, res, cpc, serviceCalls>>

\* search c is called and issues its first query (lines 91-126 or 133-187,
\* then 194-209)
PairSearch(c) ==
    /\ calls[c].at.pc = "search"
    /\ calls' = [calls EXCEPT ![c].at = At("fetch", 1, <<>>, 0, NoResult, <<1>>)]
    /\ UNCHANGED config
    /\ UNCHANGED soloVars

\* mutant: the items of a response are taken up in an unspecified order
PairProviderResponds_anyOrder(c) ==
    /\ calls[c].at.pc = "fetch"
    /\ \E resp \in PairResponses :
          LET cs == Deliver(calls[c], resp)
          IN  \E k \in 1..(IF cs.at.pc = "eval" THEN Len(cs.at.items) ELSE 1) :
                 calls' = [calls EXCEPT ![c] =
                              RunToAwait(IF cs.at.pc = "eval"
                                         THEN [cs EXCEPT !.at.idx = k] ELSE cs)]
    /\ UNCHANGED config
    /\ UNCHANGED soloVars

\* the provider answers the query of search c, which runs to its next await
PairProviderResponds(c) ==
    /\ calls[c].at.pc = "fetch"
    /\ \E resp \in PairResponses :
          calls' = [calls EXCEPT ![c] = RunToAwait(Deliver(@, resp))]
    /\ UNCHANGED config
    /\ UNCHANGED soloVars

\* mutant: the strategy index is kept in a field of the service, shared by
\* the searches in progress
PairHeadResponds_sharedIndex(c) ==
    /\ calls[c].at.pc \in {"probe1", "probe2"}
    /\ \E outcome \in PairProbeOutcomes :
          LET cs == RunToAwait(Deliver(calls[c], outcome))
          IN  calls' = [o \in CallIds |->
                           IF o = c THEN cs
                           ELSE IF calls[o].at.pc = "search" THEN calls[o]
                           ELSE [calls[o] EXCEPT !.at.si = cs.at.si]]
    /\ UNCHANGED config
    /\ UNCHANGED soloVars

\* a HEAD request of search c completes, and the search runs to its next await
PairHeadResponds(c) ==
    /\ calls[c].at.pc \in {"probe1", "probe2"}
    /\ \E outcome \in PairProbeOutcomes :
          calls' = [calls EXCEPT ![c] = RunToAwait(Deliver(@, outcome))]
    /\ UNCHANGED config
    /\ UNCHANGED soloVars

PairNext ==
    \/ \E c \in CallIds : PairSearch(c)
    \/ \E c \in CallIds : PairProviderResponds(c)
    \/ \E c \in CallIds : PairHeadResponds(c)

PairSpec == PairInit /\ [][PairNext]_vars

(***************************************************************************)
(* The controllers: CityController.extract (cityController.js, lines 15-68 *)
(* of part_000) and UniversityController.extract (part_002, lines 15-65),  *)
(* with the extraction service they call                                   *)
(***************************************************************************)
\* values of a field of req.body: missing, null, a number, '', a name
CityValues == {Undefined, Null, Num(7), EmptyString, Str(<<"L", "i", "m", "a">>)}
CountryValues == {Undefined, Null, Num(7), EmptyString, Str(<<"P", "e", "r", "u">>)}
UniversityValues ==
    {Undefined, Null, Num(7), EmptyString,
     Str(<<"Y", "a", "l", "e", " ", "L", "a", "w">>)}

\* the requests: req.body is the object express.json() (part_000:88) parsed
Requests ==
    [route : {"/extract-city"},
     body : [city : CityValues, state : {Undefined}, country : CountryValues]]
    \cup
    [route : {"/extract"}, body : [university : UniversityValues]]

\* mutant: only the first field of the body is checked
requestOk_firstFieldOnly(route, body) ==
    IF route = "/extract-city"
    THEN ~(~Truthy(body.city) \/ body.city.t # "string")
    ELSE ~(~Truthy(body.university) \/ body.university.t # "string")

\* the checks of the request body: part_000:19 and 26, part_002:20; FALSE
\* when the handler answers 400
requestOk(route, body) ==
    IF route = "/extract-city"
    THEN /\ ~(~Truthy(body.city) \/ body.city.t # "string")
         /\ ~(~Truthy(body.country) \/ body.country.t # "string")
    ELSE ~(~Truthy(body.university) \/ body.university.t # "string")

RequestInit ==
    /\ req \in Requests
    /\ res = <<>>
    /\ cpc = "received"
    /\ serviceCalls = 0
    /\ imageSearchService \in BOOLEAN
    /\ caller = "none"
    /\ xpc = "none"
    /\ validatedData = Undefined
    /\ universityImage = Undefined
    /\ verified = {}
    /\ config = ServiceConfig
    /\ calls = <<>>
    /\ pc = "idle"
    /\ mode = "discover"
    /\ desc = 0
    /\ imageUrl = Undefined
    /\ si = 0
    /\ items = <<>>
    /\ idx = 0
    /\ probes = <<>>
    /\ verdict = FALSE
    /\ result = NoResult
    /\ queried = <<>>
    /\ lastResp = "none"
    /\ evalOut = NoEval

\* the variables of a search or validation in progress
calleeVars ==
    <<mode, desc, pc, si, items, idx, imageUrl, probes, verdict, result, queried,
      lastResp, evalOut>>

\* the handler up to its first await or its 400 response: part_000:16-38,
\* part_002:16-33
ControllerExtract ==
    /\ cpc = "received"
    /\ IF requestOk(req.route, req.body)
       THEN /\ caller' = IF req.route = "/extract-city" THEN "CityService"
                                                        ELSE "GeminiService"
            /\ xpc' = "generateContent"
            /\ serviceCalls' = serviceCalls + 1
            /\ cpc' = "awaitService"
            /\ UNCHANGED res
       ELSE /\ res' = Append(res, 400)
            /\ cpc' = "responded"
            /\ UNCHANGED <<caller, xpc, serviceCalls>>
    /\ UNCHANGED <<req, imageSearchService, validatedData, universityImage, verified,
                   config, calls>>
    /\ UNCHANGED calleeVars

\* the extraction service up to the image step: the model's answer arrives
\* and is parsed (cityService.js:328-371, schemas.js:1540-1560), or one of
\* these steps throws and the catch block rethrows (cityService.js:396-401,
\* schemas.js:1627-1632)
GeminiResponds ==
    /\ xpc = "generateContent"
    /\ \/ /\ xpc' = "threw"
          /\ UNCHANGED validatedData
       \/ \E r \in ParsedRecords :
             /\ r.caller = caller
             /\ validatedData' = r.data
             /\ xpc' = "start"
    /\ UNCHANGED <<caller, imageSearchService, universityImage, verified>>
    /\ UNCHANGED outerVars
    /\ UNCHANGED calleeVars

\* the handler after the await: the record is parsed again and sent with
\* status 200 (part_000:41-43, part_002:36-39), or the catch block answers
\* 500 (part_000:44-66, part_002:40-63)
ControllerRespond ==
    /\ cpc = "awaitService"
    /\ xpc \in {"returned", "threw"}
    /\ \E zodError \in BOOLEAN :
          res' = Append(res, IF xpc = "threw" \/ zodError THEN 500 ELSE 200)
    /\ cpc' = "responded"
    /\ UNCHANGED <<caller, xpc, imageSearchService, validatedData, universityImage,
                   verified, config, calls, req, serviceCalls>>
    /\ UNCHANGED calleeVars

RequestNext ==
    \/ Search
    \/ ProviderResponds
    \/ EvalCandidate
    \/ Classify
    \/ HeadResponds
    \/ CityClassify
    \/ CityHeadResponds
    \/ Resume
    \/ ExtractStart
    \/ ExtractResume
    \/ ControllerExtract
    \/ GeminiResponds
    \/ ControllerRespond

RequestSpec == RequestInit /\ [][RequestNext]_vars

(***************************************************************************)
(* CityService._postProcess (cityService.js:407-440)                       *)
(***************************************************************************)
DigitValue ==
    [c \in {"0", "1", "2", "3", "4", "5", "6", "7", "8", "9"} |->
        CASE c = "0" -> 0 [] c = "1" -> 1 [] c = "2" -> 2 [] c = "3" -> 3
          [] c = "4" -> 4 [] c = "5" -> 5 [] c = "6" -> 6 [] c = "7" -> 7
          [] c = "8" -> 8 [] c = "9" -> 9]

RECURSIVE DigitsValue(_, _, _)
\* the value of the longest run of decimal digits of s from position i, with
\* acc the value of the digits read so far
DigitsValue(s, i, acc) ==
    IF i <= Len(s) /\ s[i] \in DOMAIN DigitValue
    THEN DigitsValue(s, i + 1, 10 * acc + DigitValue[s[i]])
    ELSE acc

RECURSIVE SkipSpaces(_, _)
\* the position of the first character of s at or after i that is no space
SkipSpaces(s, i) ==
    IF i <= Len(s) /\ s[i] = " " THEN SkipSpaces(s, i + 1) ELSE i

\* parseInt(s, 10) of a string (line 429): leading white space is skipped,
\* a sign is read, then the longest run of digits; NaN when there is no digit
parseInt10(s) ==
    LET i == SkipSpaces(s, 1)
        signed == i <= Len(s) /\ s[i] \in {"-", "+"}
        j == IF signed THEN i + 1 ELSE i
    IN  IF j <= Len(s) /\ s[j] \in DOMAIN DigitValue
        THEN Num(IF signed /\ s[i] = "-" THEN 0 - DigitsValue(s, j, 0)
                                         ELSE DigitsValue(s, j, 0))
        ELSE NaN

\* String(n) for the integers 0..9 (line 433 applies it to ratings 1..5)
DigitString(n) ==
    <<CHOOSE c \in DOMAIN DigitValue : DigitValue[c] = n>>

\* `x || 0` for a number field (lines 410-415)
OrZero(v) == IF Truthy(v) THEN v.n ELSE 0

Max(a, b) == IF a >= b THEN a ELSE b
Min(a, b) == IF a <= b THEN a ELSE b

climates ==
    { Str(<<"w", "a", "r", "m">>), Str(<<"m", "o", "d", "e", "r", "a", "t", "e">>), Str(<<"c", "o", "l", "d">>) }

\* _postProcess(data), lines 407-437
postProcess(data) ==
    LET expectedSum ==
            OrZero(data.average_rent) + OrZero(data.average_food_cost)
            + OrZero(data.transportation) + OrZero(data.utilities)
            + OrZero(data.internet_and_subscriptions) + OrZero(data.miscellaneous)
        d1 == IF data.average_monthly_cost_of_living # Num(expectedSum)
              THEN [data EXCEPT !.average_monthly_cost_of_living = Num(expectedSum)]
              ELSE data
        d2 == IF d1.student_happiness_score.t \notin {"null", "undefined"}
              THEN [d1 EXCEPT !.student_happiness_score =
                                  Num(Max(0, Min(100, @.n)))]
              ELSE d1
        d3 == IF Truthy(d2.city_rating)
              THEN LET rating == parseInt10(d2.city_rating.s)
                   IN  IF rating = NaN \/ rating.n < 1 \/ rating.n > 5
                       THEN [d2 EXCEPT !.city_rating = Str(<<"3">>)]
                       ELSE [d2 EXCEPT !.city_rating = Str(DigitString(rating.n))]
              ELSE d2
    IN  IF Truthy(d3.climate) /\ d3.climate \notin climates
        THEN [d3 EXCEPT !.climate = Null]
        ELSE d3

\* values of city_rating: z.string() (cityService schema; part_000:328)
RatingValues ==
    { EmptyString, Str(<<"4">>), Str(<<"0">>), Str(<<"9">>), Str(<<"4", ".", "7">>),
      Str(<<"-", "2">>), Str(<<" ", "5">>), Str(<<"g", "o", "o", "d">>),
      Str(<<"1", "0">>) }

\* records CitySchema.parse (line 364) lets through, as far as _postProcess
\* reads them
CityRecords ==
    [city_rating : RatingValues,
     student_happiness_score : {Undefined, Null, Num(0 - 5), Num(0), Num(50),
                                Num(100), Num(150)},
     climate : {Undefined, Null} \cup climates,
     average_monthly_cost_of_living : {Num(0), Num(810), Num(99)},
     average_rent : {Num(0), Num(500)},
     average_food_cost : {Num(0), Num(200)},
     transportation : {Num(50)},
     utilities : {Num(0), Num(30)},
     internet_and_subscriptions : {Num(20)},
     miscellaneous : {Num(10)}]

PostInit ==
    /\ validatedData \in CityRecords
    /\ xpc = "parsed"
    /\ caller = "CityService"
    /\ imageSearchService = FALSE
    /\ universityImage = Undefined
    /\ verified = {}
    /\ config = ServiceConfig
    /\ calls = <<>>
    /\ req = Undefined
    /\ res = <<>>
    /\ cpc = "none"
    /\ serviceCalls = 0
    /\ pc = "idle"
    /\ mode = "discover"
    /\ desc = 0
    /\ imageUrl = Undefined
    /\ si = 0
    /\ items = <<>>
    /\ idx = 0
    /\ probes = <<>>
    /\ verdict = FALSE
    /\ result = NoResult
    /\ queried = <<>>
    /\ lastResp = "none"
    /\ evalOut = NoEval

\* this._postProcess(validatedData) (line 371)
PostProcess ==
    /\ xpc = "parsed"
    /\ validatedData' = postProcess(validatedData)
    /\ xpc' = "postProcessed"
    /\ UNCHANGED <<caller, imageSearchService, universityImage, verified>>
    /\ UNCHANGED outerVars
    /\ UNCHANGED calleeVars

PostNext == PostProcess

PostSpec == PostInit /\ [][PostNext]_vars





TypeOK ==
    /\ mode \in {"discover", "validate", "geminiValidate", "cityValidate"}
    /\ pc \in {"search", "fetch", "eval", "valid", "probe1", "probe2", "cvalid",
               "cprobe", "ret", "done", "threw", "idle"}
    /\ si \in 0..NumStrategies
    /\ idx \in 0..Len(items)
    /\ Len(probes) <= 2
    /\ verdict \in BOOLEAN

(***************************************************************************)
(* Properties                                                              *)
(***************************************************************************)
Discover == mode = "discover"

\* the descriptor of the discover call has a non-empty name
ValidDescriptor == Discover /\ Descriptors[desc].name # <<>>

Terminated == pc \in {"done", "threw"}

\* discover returned Found(url)
Found == Discover /\ pc = "done" /\ result # Null

\* discover returned NotFound
NotFound == Discover /\ pc = "done" /\ result = Null

\* the item of the inner loop
CurrentItem == Cand[items[idx]]

\* the verdict the classifier reaches for url given the outcomes ps of its probes
ClassifierVerdict(u, ps) ==
    LET r0 == isValidImageUrlSync(u)
    IN  IF r0 \in {"true", "false"} THEN r0
        ELSE IF Len(ps) = 0 THEN "pending"
        ELSE IF r0 = "probe2" THEN afterProbe2(ps[1])
        ELSE IF afterProbe1(ps[1]) # "probe2" THEN afterProbe1(ps[1])
        ELSE IF Len(ps) = 1 THEN "pending"
        ELSE afterProbe2(ps[2])

\* stage k (1..5) of the filter chain lets item c through for descriptor d;
\* c is an item with a string link (and, for stage 5, an image object)
StageOk(k, d, c) ==
    LET item == Cand[c]
        D == Descriptors[d]
    IN  CASE k = 1 -> ~isForbidden(item.link.s)
          [] k = 2 -> ~hasBadKeywords(item.link.s, D.type)
                      /\ ~hasNotRealPhoto(allTextOf(item))
          [] k = 3 -> locationOk(allTextOf(item), D.type, D.name, D.country)
          [] k = 4 -> kindKeywordsOk(allTextOf(item), D.type)
          [] k = 5 -> item.image.t = "object" /\ aspectOk(item.image)

WellFormed(c) == Cand[c].t = "object" /\ Cand[c].link.t = "string"

\* PassesFive[d][c]: item c is well formed and passes the stages 1..5 for d
PassesFive ==
    [d \in DescIds |->
        [c \in CandIds |-> WellFormed(c) /\ \A k \in 1..5 : StageOk(k, d, c)]]

\* variant of a call: decreases with every step
Big == 8 * (MaxItems + 2)

Rank(p) ==
    CASE p = "search" -> 7
      [] p = "eval" -> 6
      [] p \in {"valid", "cvalid"} -> 5
      [] p \in {"probe1", "cprobe"} -> 4
      [] p = "probe2" -> 3
      [] p = "ret" -> 2
      [] OTHER -> 0

Measure ==
    IF Terminated THEN 0
    ELSE IF pc = "fetch" THEN (NumStrategies + 1 - si) * Big + Big - 1
    ELSE (NumStrategies + 1 - si) * Big + (Len(items) - idx + 1) * 8 + Rank(pc)

\* C1: for a descriptor with a non-empty name and every behaviour of the
\* provider and of the probed servers, discover terminates and returns a URL
\* or null, and no exception leaves it: no state has the call ended by an
\* exception, a finished call holds a URL or null, a call that has not
\* finished can take a step, and every step decreases the variant Measure
\* (a natural number), so the call finishes once its network calls complete.
C1_DiscoverTerminates ==
    /\ [](ValidDescriptor =>
            /\ pc # "threw"
            /\ (pc = "done" => result = Null \/ result.t = "string")
            /\ (~Terminated => ENABLED Next))
    /\ [][ValidDescriptor => Measure' < Measure /\ Measure' >= 0]_vars

\* C1 witness: a call with a non-empty name ended with null after the fifth
\* provider call failed in transport
C1_Witness ==
    /\ ValidDescriptor
    /\ pc = "done"
    /\ result = Null
    /\ lastResp = "reject"

\* C2: short-circuit. The step that follows an accepting verdict ends the
\* call with that candidate's imageUrl, issuing no query and no probe and
\* evaluating no candidate; a finished call takes no step; when the call
\* returns a URL found in the response of strategy k, exactly the queries of
\* the strategies 1..k have been issued (one query when k = 1).
C2_ShortCircuit ==
    /\ [](Found =>
            /\ result = CurrentItem.link
            /\ Len(queried) = si
            /\ \A j \in 1..si : queried[j] = j)
    /\ [][(Discover /\ pc = "ret" /\ verdict) =>
            /\ pc' = "done"
            /\ result' = imageUrl
            /\ UNCHANGED <<si, items, idx, queried, probes, imageUrl>>]_vars
    /\ [][pc # "done"]_vars

\* C2 witness: the second candidate of the second strategy's response was accepted
C2_Witness ==
    /\ Found
    /\ si = 2
    /\ idx = 2
    /\ queried = <<1, 2>>

\* C3: soundness of acceptance. A URL returned by discover is the link of an
\* item of the provider response being processed; that item passed the five
\* filter stages and the classifier accepted its URL given the probe outcomes
\* observed.
C3_Soundness ==
    Found =>
        /\ idx \in 1..Len(items)
        /\ result = CurrentItem.link
        /\ PassesFive[desc][items[idx]]
        /\ ClassifierVerdict(result, probes) = "true"

\* C3 witness: a URL was accepted after two HEAD requests
C3_Witness ==
    /\ Found
    /\ result = Str(UrlImgPath)
    /\ Len(probes) = 2

\* C4: within one provider response, whatever ends the evaluation of a
\* candidate (a rejection at any stage, an error, a failed probe) moves the
\* evaluation to the next candidate of the same response: the step that ends
\* a candidate other than the last one leads to the evaluation of the next
\* item of the same list, under the same strategy.
C4_NextCandidate ==
    [][(/\ Discover
        /\ \/ pc = "eval" /\ pc' # "valid"
           \/ pc = "ret" /\ pc' # "done"
        /\ idx < Len(items))
       => (pc' = "eval" /\ idx' = idx + 1 /\ items' = items /\ si' = si)]_vars

\* C5: strategies are queried in their fixed order, each at most once, so at
\* most five queries are issued; null is returned only after all five
\* strategies have been queried.
C5_StrategyOrder ==
    Discover =>
        /\ Len(queried) <= NumStrategies
        /\ \A j \in 1..Len(queried) : queried[j] = j
        /\ (NotFound => Len(queried) = NumStrategies)

\* C5 witness: null was returned after five queries, the last one answered
\* with a non-success status
C5_Witness ==
    /\ NotFound
    /\ queried = <<1, 2, 3, 4, 5>>
    /\ lastResp = "status"

\* a provider response with zero results
ZeroResults == [kind |-> "ok", hasItems |-> TRUE, items |-> <<>>]

\* C6: a provider call that fails for strategy si (transport error or
\* non-success status) leaves discover exactly where a response with zero
\* results would have left it (so every continuation, and the final result,
\* is the same), and that is: strategy si+1 is queried next, or null is
\* returned when si was the last strategy.
C6_FailureIsZeroResults ==
    [][(Discover /\ pc = "fetch" /\ lastResp' \in {"reject", "status"}) =>
          /\ At(pc', si', items', idx', result', queried')
                = afterFetch(ZeroResults, si, queried)
          /\ <<imageUrl', probes', verdict', evalOut'>> = <<Undefined, <<>>, FALSE, NoEval>>
          /\ IF si < NumStrategies
             THEN pc' = "fetch" /\ si' = si + 1 /\ queried' = Append(queried, si + 1)
             ELSE pc' = "done" /\ result' = Null]_vars

\* C6 witness: the first provider call failed in transport and the second
\* strategy's query is in flight
C6_Witness ==
    /\ Discover
    /\ pc = "fetch"
    /\ si = 2
    /\ lastResp = "reject"

\* first stage (1..5) that does not let the well-formed item c through, 6 if none
FirstFail ==
    [d \in DescIds |->
        [c \in CandIds |->
            IF ~WellFormed(c) THEN 0
            ELSE IF \A k \in 1..5 : StageOk(k, d, c) THEN 6
            ELSE CHOOSE k \in 1..5 :
                    /\ ~StageOk(k, d, c)
                    /\ \A j \in 1..(k - 1) : StageOk(j, d, c)]]

\* C7: the stages run in the fixed order forbidden source, non-photograph
\* keywords, subject match, kind keywords, aspect ratio, direct-image
\* confirmation, stopping at the first rejection: a candidate is skipped at
\* the first stage that rejects it, and the classifier is called, and a HEAD
\* request issued, only for a candidate that passed the five stages before it.
C7_StageOrder ==
    Discover =>
        /\ (pc \in {"valid", "probe1", "probe2", "ret"} =>
                /\ evalOut.out = "pass"
                /\ PassesFive[desc][items[idx]])
        /\ (pc = "eval" /\ idx > 1 =>
                /\ evalOut.out = "reject"
                /\ WellFormed(items[idx - 1])
                /\ evalOut.stage = FirstFail[desc][items[idx - 1]])

\* C7 witness: a HEAD request is in flight for the second candidate of a
\* response whose first candidate was rejected for its aspect ratio
C7_Witness ==
    /\ Discover
    /\ pc = "probe2"
    /\ idx = 2
    /\ FirstFail[desc][items[1]] = 5

\* the non-vector image-file extensions
RasterExtensions ==
    { <<".", "j", "p", "g">>, <<".", "j", "p", "e", "g">>, <<".", "p", "n", "g">>,
      <<".", "g", "i", "f">>, <<".", "w", "e", "b", "p">>, <<".", "b", "m", "p">>,
      <<".", "t", "i", "f", "f">>, <<".", "t", "i", "f">> }

\* the URL given to the classifier ends in a non-vector image-file extension
EndsInRasterExt ==
    /\ imageUrl.t = "string"
    /\ \E e \in RasterExtensions : endsWith(toLowerCase(imageUrl.s), e)

\* C8: for a URL ending in .jpg, .png, .webp or another known non-vector
\* image extension the classifier returns true, and it never issues a HEAD
\* request for it.
C8_ExtensionAccepted ==
    EndsInRasterExt =>
        /\ pc \notin {"probe1", "probe2", "cprobe", "threw"}
        /\ probes = <<>>
        /\ (pc = "ret" => verdict)
        /\ (pc = "done" => IF Discover THEN result = imageUrl ELSE result = Bool(TRUE))

\* C8 witness: a standalone isValidImageUrl call returned true for a .webp
\* URL and no HEAD request was made
C8_Witness ==
    /\ mode = "validate"
    /\ pc = "done"
    /\ imageUrl = Str(UrlBare \o <<".", "w", "e", "b", "p">>)
    /\ result = Bool(TRUE)
    /\ probes = <<>>

\* the path of a URL: what precedes the query string and the fragment
UrlPath(s) ==
    LET cut == {i \in 1..Len(s) : s[i] \in {"?", "#"}}
    IN  IF cut = {} THEN s
        ELSE SubSeq(s, 1, (CHOOSE i \in cut : \A j \in cut : i <= j) - 1)

\* the path of the URL given to the classifier ends in a known image-file extension
PathEndsInExt ==
    \E e \in RasterExtensions \cup {DotSvg} :
        endsWith(toLowerCase(UrlPath(imageUrl.s)), e)

\* the last HEAD request was answered with a content type starting with image/
LastProbeIsImage ==
    /\ probes # <<>>
    /\ probes[Len(probes)].t = "string"
    /\ startsWith(probes[Len(probes)].s, ImagePrefix)

\* C9: for a URL whose path does not end in a known image-file extension,
\* isValidImageUrl returns true only if a HEAD request was made and the
\* content type it declared starts with image/; any other declared type
\* yields false.
C9_ProbeRequired ==
    (/\ mode # "cityValidate"
     /\ pc \in {"ret", "done"}
     /\ imageUrl.t = "string"
     /\ ~PathEndsInExt)
    => (verdict <=> LastProbeIsImage)

\* C10: the classifiers never throw; a null, non-string or empty URL gives
\* false without any request; a HEAD request that fails gives false at once;
\* a response without content-type header never gives true.
C10_NeverThrows ==
    /\ pc # "threw"
    /\ (~Discover /\ pc = "done" =>
            /\ result \in {Bool(TRUE), Bool(FALSE)}
            /\ result = Bool(verdict))
    /\ (~Discover /\ pc \in {"ret", "done"}
            /\ (~Truthy(imageUrl) \/ imageUrl.t # "string") =>
            ~verdict /\ probes = <<>>)
    /\ (probes # <<>> /\ probes[Len(probes)] = NetworkError =>
            pc \in {"ret", "done"} /\ ~verdict)
    /\ (probes # <<>> /\ probes[Len(probes)] = Null /\ pc \in {"ret", "done"} =>
            ~verdict)

\* C10 witness: isValidImageUrl returned false after a first HEAD response
\* without content-type header and a second HEAD request that failed
C10_Witness ==
    /\ mode = "validate"
    /\ pc = "done"
    /\ probes = <<Null, NetworkError>>
    /\ result = Bool(FALSE)

\* the path of the URL given to the classifier ends in .svg
PathEndsInSvg ==
    /\ imageUrl.t = "string"
    /\ endsWith(toLowerCase(UrlPath(imageUrl.s)), DotSvg)

\* C11: vector formats are rejected: for a URL whose path ends in .svg, with
\* or without a query string, and whatever content type the server declares,
\* each of the three classifiers (isValidImageUrl, CityService and
\* GeminiService validateImageUrl) returns false.
C11_SvgRejected ==
    (PathEndsInSvg /\ pc \in {"ret", "done"}) => ~verdict

\* one of the three texts of the well-formed item c (image URL, source-page
\* URL, title) contains marker m, case-insensitively
TextContains(c, m) ==
    /\ WellFormed(c)
    /\ \/ includes(toLowerCase(Cand[c].link.s), m)
       \/ includes(toLowerCase(ToStr(contextLinkOf(Cand[c]))), m)
       \/ includes(toLowerCase(ToStr(titleOf(Cand[c]))), m)

\* the item evaluated last by discover went past the five filter stages
PastFilters == Discover /\ (pc \in {"valid", "probe1", "probe2", "ret"} \/ Found)

\* the outcome evaluateItem gives for the item at hand: a rejection at one of stages
RejectedAt(stages) ==
    /\ EvalTable[desc][items[idx]].out = "reject"
    /\ EvalTable[desc][items[idx]].stage \in stages

PosterPrint == <<"p", "o", "s", "t", "e", "r", " ", "p", "r", "i", "n", "t">>

HasPosterPrint == [c \in CandIds |-> TextContains(c, PosterPrint)]

\* C12: a candidate whose image URL, source-page URL or title contains
\* "poster print" (in any letter case) is rejected by the content filter for
\* both subject kinds, whatever its other properties; it never reaches the
\* classifier and discover never returns its URL.
C12_PosterPrint ==
    /\ (Discover /\ pc = "eval" /\ HasPosterPrint[items[idx]] => RejectedAt({1, 2}))
    /\ (PastFilters => ~HasPosterPrint[items[idx]])

\* C12 witness: the first item of a response had "poster print" in its title,
\* a good aspect ratio and a matching subject; it was rejected by the content
\* filter and the second item is being evaluated
C12_Witness ==
    /\ Discover
    /\ pc = "eval"
    /\ idx = 2
    /\ HasPosterPrint[items[1]]
    /\ evalOut = [out |-> "reject", stage |-> 2]

\* markers of a framed print, of merchandise or apparel, of a rendered / 3D /
\* CG image, of a mockup or template, of an illustration, drawing or painting
NonPhotoMarkers ==
    { <<"f", "r", "a", "m", "e", "d">>,
      <<"m", "e", "r", "c", "h", "a", "n", "d", "i", "s", "e">>,
      <<"a", "p", "p", "a", "r", "e", "l">>,
      <<"r", "e", "n", "d", "e", "r", "e", "d">>,
      <<"3", "d", " ", "r", "e", "n", "d", "e", "r">>,
      <<"c", "g", " ", "r", "e", "n", "d", "e", "r">>,
      <<"m", "o", "c", "k", "u", "p">>,
      <<"t", "e", "m", "p", "l", "a", "t", "e">>,
      <<"i", "l", "l", "u", "s", "t", "r", "a", "t", "i", "o", "n">>,
      <<"d", "r", "a", "w", "i", "n", "g">>,
      <<"p", "a", "i", "n", "t", "i", "n", "g">> }

HasNonPhotoMarker == [c \in CandIds |-> \E m \in NonPhotoMarkers : TextContains(c, m)]

\* C13: a candidate is rejected by a filter stage whenever its image URL,
\* its source-page URL or its title contains a marker of a framed print, of
\* merchandise, of a rendered image, of a mockup or template, or of an
\* illustration, drawing or painting; it never reaches the classifier.
C13_NonPhotoMarkers ==
    /\ (Discover /\ pc = "eval" /\ HasNonPhotoMarker[items[idx]] => RejectedAt(1..5))
    /\ (PastFilters => ~HasNonPhotoMarker[items[idx]])

WrongCountryTokens ==
    { <<"j", "a", "p", "a", "n">>,
      <<"t", "o", "k", "y", "o">>,
      <<"c", "h", "i", "n", "a">>,
      <<"b", "e", "i", "j", "i", "n", "g">>,
      <<"s", "h", "a", "n", "g", "h", "a", "i">>,
      <<"k", "o", "r", "e", "a">>,
      <<"s", "e", "o", "u", "l">> }

\* HasWrongCountry[c]: a text of item c contains a wrong-country token
HasWrongCountry == [c \in CandIds |-> \E m \in WrongCountryTokens : TextContains(c, m)]

\* HasCountry[d][c]: the country of descriptor d is known and a text of item c
\* contains it
HasCountry ==
    [d \in DescIds |->
        [c \in CandIds |->
            /\ Descriptors[d].country # <<>>
            /\ TextContains(c, toLowerCase(Descriptors[d].country))]]

\* HasCityName[d][c]: a text of item c contains the name of descriptor d
HasCityName ==
    [d \in DescIds |->
        [c \in CandIds |-> TextContains(c, toLowerCase(Descriptors[d].name))]]

\* the call is a city search with a name and a known country
CityWithCountry ==
    /\ Discover
    /\ Descriptors[desc].type = "city"
    /\ Descriptors[desc].name # <<>>
    /\ Descriptors[desc].country # <<>>

\* C14: wrong-country guard. In a city search with a known country, a
\* candidate whose text has a wrong-country token and not the country is
\* rejected (at the subject stage at the latest) and never reaches the
\* classifier; in a city search, a candidate whose text has the city name is
\* not rejected at the subject stage when its text has the country, or when
\* the country is unknown.
C14_WrongCountry ==
    /\ (CityWithCountry /\ pc = "eval" /\ WellFormed(items[idx])
            /\ HasWrongCountry[items[idx]] /\ ~HasCountry[desc][items[idx]]
         => RejectedAt({1, 2, 3}))
    /\ (CityWithCountry /\ PastFilters
         => ~(HasWrongCountry[items[idx]] /\ ~HasCountry[desc][items[idx]]))
    /\ (Discover /\ Descriptors[desc].type = "city" /\ pc = "eval"
            /\ WellFormed(items[idx]) /\ HasCityName[desc][items[idx]]
            /\ (HasCountry[desc][items[idx]] \/ Descriptors[desc].country = <<>>)
         => ~RejectedAt({3}))

\* C14 witness: in the search for ("Lima", "Peru") the first item of the
\* response, titled "Lima Tokyo", was rejected at the subject stage
C14_Witness ==
    /\ CityWithCountry
    /\ pc = "eval"
    /\ idx = 2
    /\ HasWrongCountry[items[1]]
    /\ ~HasCountry[desc][items[1]]
    /\ HasCityName[desc][items[1]]
    /\ evalOut = [out |-> "reject", stage |-> 3]

\* PassesFour[d][c]: item c is well formed and passes the stages 1..4 for d
PassesFour ==
    [d \in DescIds |->
        [c \in CandIds |-> WellFormed(c) /\ \A k \in 1..4 : StageOk(k, d, c)]]

\* DimsKnown[c]: item c carries a width and a height, both positive numbers
DimsKnown ==
    [c \in CandIds |->
        /\ WellFormed(c)
        /\ Cand[c].image.t = "object"
        /\ Cand[c].image.width.t = "number" /\ Cand[c].image.width.n > 0
        /\ Cand[c].image.height.t = "number" /\ Cand[c].image.height.n > 0]

\* InBand[c]: 1.2 <= width / height <= 2.5, for an item with known dimensions
InBand ==
    [c \in CandIds |->
        /\ DimsKnown[c]
        /\ 12 * Cand[c].image.height.n <= 10 * Cand[c].image.width.n
        /\ 10 * Cand[c].image.width.n <= 25 * Cand[c].image.height.n]

\* C15: geometry gate. A candidate with known width and height that passed
\* the four stages before the gate goes on to the classifier if and only if
\* 1.2 <= width / height <= 2.5, bounds included, and is rejected by the gate
\* otherwise; no candidate with a known ratio outside the band reaches the
\* classifier or is returned.
C15_AspectBand ==
    /\ (Discover /\ pc = "eval" /\ PassesFour[desc][items[idx]] /\ DimsKnown[items[idx]]
         => IF InBand[items[idx]]
            THEN EvalTable[desc][items[idx]].out = "pass"
            ELSE RejectedAt({5}))
    /\ (PastFilters /\ DimsKnown[items[idx]] => InBand[items[idx]])

\* C15 witness: in a university search the first item of the response, with
\* a matching title and an aspect ratio of 0.8, was rejected by the gate
C15_Witness ==
    /\ Discover
    /\ Descriptors[desc].type = "university"
    /\ pc = "eval"
    /\ idx = 2
    /\ PassesFour[desc][items[1]]
    /\ DimsKnown[items[1]]
    /\ 10 * Cand[items[1]].image.width.n = 8 * Cand[items[1]].image.height.n
    /\ evalOut = [out |-> "reject", stage |-> 5]

\* C16: a candidate whose width or height is unknown (absent or unparsable,
\* or the item carries no image object at all) is not rejected by the
\* geometry gate: having passed the four stages before it, its evaluation
\* ends with the call of the classifier.
C16_UnknownDims ==
    (Discover /\ pc = "eval" /\ PassesFour[desc][items[idx]] /\ ~DimsKnown[items[idx]])
    => EvalTable[desc][items[idx]].out = "pass"

\* the words of a name: its maximal runs of characters other than the space
WordsOf(name) ==
    { SubSeq(name, i, j) : <<i, j>> \in
        { p \in (1..Len(name)) \X (1..Len(name)) :
            /\ p[1] <= p[2]
            /\ \A k \in p[1]..p[2] : name[k] # " "
            /\ (p[1] = 1 \/ name[p[1] - 1] = " ")
            /\ (p[2] = Len(name) \/ name[p[2] + 1] = " ") } }

\* NameWordOccurs[d][c]: a word of more than 3 characters of the name of
\* descriptor d occurs in a text of item c
NameWordOccurs ==
    [d \in DescIds |->
        [c \in CandIds |->
            \E w \in WordsOf(Descriptors[d].name) :
                Len(w) > 3 /\ TextContains(c, toLowerCase(w))]]

\* PassesTwo[d][c]: item c is well formed and passes the stages 1 and 2 for d
PassesTwo ==
    [d \in DescIds |->
        [c \in CandIds |-> WellFormed(c) /\ \A k \in 1..2 : StageOk(k, d, c)]]

\* C17: subject match, for a descriptor with a name. A university candidate
\* that reaches the stage is rejected by it if and only if no word of the
\* name longer than 3 characters occurs in its texts; a city candidate whose
\* texts do not contain the city name is rejected by it; whatever goes on to
\* the classifier matches its subject in this sense.
C17_SubjectMatch ==
    /\ (ValidDescriptor /\ pc = "eval" /\ PassesTwo[desc][items[idx]] =>
            IF Descriptors[desc].type = "university"
            THEN RejectedAt({3}) <=> ~NameWordOccurs[desc][items[idx]]
            ELSE ~HasCityName[desc][items[idx]] => RejectedAt({3}))
    /\ (ValidDescriptor /\ PastFilters =>
            IF Descriptors[desc].type = "university"
            THEN NameWordOccurs[desc][items[idx]]
            ELSE HasCityName[desc][items[idx]])

\* C17 witness: in the search for "Yale Law" the first item of the response,
\* whose texts contain "law" but not "yale", was rejected at the subject stage
C17_Witness ==
    /\ ValidDescriptor
    /\ Descriptors[desc].type = "university"
    /\ pc = "eval"
    /\ idx = 2
    /\ TextContains(items[1], <<"l", "a", "w">>)
    /\ ~NameWordOccurs[desc][items[1]]
    /\ evalOut = [out |-> "reject", stage |-> 3]

\* generic / stock keywords
GenericTokens ==
    { <<"g", "e", "n", "e", "r", "i", "c">>,
      <<"s", "t", "o", "c", "k", "-", "p", "h", "o", "t", "o">>,
      <<"p", "l", "a", "c", "e", "h", "o", "l", "d", "e", "r">>,
      <<"t", "e", "m", "p", "l", "a", "t", "e">> }

\* single-building keywords
SingleBuildingTokens ==
    { <<"s", "i", "n", "g", "l", "e", "-", "b", "u", "i", "l", "d", "i", "n", "g">>,
      <<"o", "n", "e", "-", "b", "u", "i", "l", "d", "i", "n", "g">>,
      <<"i", "n", "d", "i", "v", "i", "d", "u", "a", "l", "-", "b", "u", "i", "l", "d", "i", "n", "g">> }

\* cityscape keywords
CityscapeTokens ==
    { <<"c", "i", "t", "y", "s", "c", "a", "p", "e">>,
      <<"s", "k", "y", "l", "i", "n", "e">>,
      <<"u", "r", "b", "a", "n", "-", "l", "a", "n", "d", "s", "c", "a", "p", "e">>,
      <<"m", "a", "n", "y", "-", "b", "u", "i", "l", "d", "i", "n", "g", "s">>,
      <<"c", "i", "t", "y", "-", "v", "i", "e", "w">>,
      <<"b", "u", "i", "l", "d", "i", "n", "g", "s">>,
      <<"d", "o", "w", "n", "t", "o", "w", "n">>,
      <<"w", "a", "t", "e", "r", "f", "r", "o", "n", "t">>,
      <<"l", "a", "n", "d", "m", "a", "r", "k">> }

\* KindReject[t][c]: what the kind-specific stage rejects, for the subject kind t
KindReject ==
    [t \in {"university", "city"} |->
        [c \in CandIds |->
            IF t = "university"
            THEN \E m \in GenericTokens : TextContains(c, m)
            ELSE /\ \E m \in SingleBuildingTokens : TextContains(c, m)
                 /\ ~\E m \in CityscapeTokens : TextContains(c, m)]]

\* PassesThree[d][c]: item c is well formed and passes the stages 1..3 for d
PassesThree ==
    [d \in DescIds |->
        [c \in CandIds |-> WellFormed(c) /\ \A k \in 1..3 : StageOk(k, d, c)]]

\* C18: kind-specific keyword stage. A university candidate that reaches the
\* stage is rejected by it if and only if its texts contain a generic / stock
\* keyword; a city candidate if and only if its texts contain a
\* single-building keyword and no cityscape keyword; so a candidate without
\* any campus or cityscape keyword is not rejected for that.
C18_KindKeywords ==
    /\ (Discover /\ pc = "eval" /\ PassesThree[desc][items[idx]] =>
            (RejectedAt({4}) <=> KindReject[Descriptors[desc].type][items[idx]]))
    /\ (PastFilters => ~KindReject[Descriptors[desc].type][items[idx]])

\* C18 witness: in a city search the first item of the response, with a
\* single-building keyword and no cityscape keyword, was rejected at the stage
C18_Witness ==
    /\ Discover
    /\ Descriptors[desc].type = "city"
    /\ pc = "eval"
    /\ idx = 2
    /\ PassesThree[desc][items[1]]
    /\ KindReject["city"][items[1]]
    /\ evalOut = [out |-> "reject", stage |-> 4]

\* the blacklisted domains
BlacklistedDomains ==
    { <<"w", "i", "k", "i", "m", "e", "d", "i", "a", ".", "o", "r", "g">>,
      <<"w", "i", "k", "i", "p", "e", "d", "i", "a", ".", "o", "r", "g">>,
      <<"f", "a", "c", "e", "b", "o", "o", "k", ".", "c", "o", "m">>,
      <<"l", "o", "o", "k", "a", "s", "i", "d", "e", ".", "f", "b", "s", "b", "x", ".", "c", "o", "m">> }

\* the blacklisted file extensions
BlacklistedExtensions ==
    { <<".", "s", "v", "g">>,
      <<".", "g", "i", "f">>,
      <<".", "i", "c", "o">> }

\* ForbiddenSource[c]: the image URL of item c is on a blacklisted domain, or
\* the file its path names has a blacklisted extension
ForbiddenSource ==
    [c \in CandIds |->
        /\ WellFormed(c)
        /\ \/ \E d \in BlacklistedDomains : includes(toLowerCase(Cand[c].link.s), d)
           \/ \E e \in BlacklistedExtensions :
                 endsWith(toLowerCase(UrlPath(Cand[c].link.s)), e)]

\* C19: a candidate whose image URL is on a blacklisted domain or has a
\* blacklisted file extension is rejected at the first stage and never
\* reaches the classifier, so discover never returns it, whatever its title,
\* its dimensions and the content type served.
C19_ForbiddenSource ==
    /\ (Discover /\ pc = "eval" /\ ForbiddenSource[items[idx]] => RejectedAt({1}))
    /\ (PastFilters => ~ForbiddenSource[items[idx]])

\* C20: a discover call with an empty entity name fails as an input error
\* before any strategy is built and before any network request: it issues no
\* provider query and no HEAD request, and does not run the strategies.
C20_EmptyNameRejected ==
    (Discover /\ Descriptors[desc].name = <<>>) =>
        /\ pc \in {"search", "threw"}
        /\ queried = <<>>
        /\ probes = <<>>

(***************************************************************************)
(* The callers                                                             *)
(***************************************************************************)
\* the image fields the caller's record has
ImageFields ==
    IF caller = "GeminiService" THEN {"university_image", "city_image"}
    ELSE {"city_image"}

\* the extraction has returned its record
Returned == caller # "none" /\ xpc = "returned"

\* C21: with a search provider configured, an extraction never fails because
\* a search found nothing; the record it returns has every image field empty
\* or equal to a URL a search returned, and the field of an entity whose
\* search returned null (NotFound) is empty.
C21_NotFoundOmitsImage ==
    (caller # "none" /\ imageSearchService) =>
        /\ xpc # "threw"
        /\ Returned =>
              /\ \A f \in ImageFields :
                    validatedData[f] = EmptyString \/ validatedData[f] \in verified
              /\ result = Null => validatedData.city_image = EmptyString
              /\ (caller = "GeminiService" /\ universityImage = Null) =>
                    validatedData.university_image = EmptyString

\* C22: without a search provider, an extraction issues no search query and
\* evaluates no search item (no subject or keyword filter runs), and every
\* image field of the record it returns is empty or a URL for which the
\* direct-image validation returned true.
C22_StandaloneValidation ==
    (caller # "none" /\ ~imageSearchService) =>
        /\ pc \notin {"search", "fetch", "eval"}
        /\ queried = <<>>
        /\ evalOut = NoEval
        /\ Returned =>
              \A f \in ImageFields :
                 validatedData[f] = EmptyString \/ validatedData[f] \in verified

\* GeminiService without a provider returns: the university image was
\* accepted and is published, the city image was rejected and is cleared
C22_Witness ==
    /\ Returned
    /\ ~imageSearchService
    /\ caller = "GeminiService"
    /\ validatedData.university_image = Str(UrlJpg)
    /\ validatedData.city_image = EmptyString
    /\ imageUrl = Str(UrlBare)
    /\ result = Bool(FALSE)

(***************************************************************************)
(* Concurrent searches                                                     *)
(***************************************************************************)
\* search c has returned
CallDone(c) == calls[c].at.pc = "done"

RECURSIVE Alone(_, _)
\* the locals of a search with descriptor d that runs alone and has been
\* delivered the inputs h
Alone(d, h) ==
    IF h = <<>> THEN [StartCall(d) EXCEPT !.at = At("fetch", 1, <<>>, 0, NoResult, <<1>>)]
    ELSE RunToAwait(Deliver(Alone(d, SubSeq(h, 1, Len(h) - 1)), h[Len(h)]))

C24_NoInterference ==
    /\ config = ServiceConfig
    /\ \A c \in DOMAIN calls :
          calls[c].at.pc # "search" => calls[c] = Alone(calls[c].desc, calls[c].heard)

\* the searches interleaved and returned different results: search 2 found
\* nothing after five queries, search 1 returned a URL on its second query
C24_Witness ==
    /\ calls # <<>>
    /\ CallDone(1) /\ CallDone(2)
    /\ calls[1].desc # calls[2].desc
    /\ calls[2].at.result = Null
    /\ calls[2].at.queried = <<1, 2, 3, 4, 5>>
    /\ calls[1].at.result = Str(UrlImgPath)
    /\ calls[1].at.queried = <<1, 2>>

(***************************************************************************)
(* The strategies                                                          *)
(***************************************************************************)
\* the query q has the argument of role r, with value chars, between quotes
QuotedArg(q, r, chars) ==
    \E i \in 2..(Len(q) - 1) :
       /\ q[i].kind = "arg" /\ q[i].role = r /\ q[i].s = chars
       /\ q[i - 1] = Quote
       /\ q[i + 1] = Quote

\* the query q has an argument of role r
HasArg(q, r) == \E i \in 1..Len(q) : q[i].kind = "arg" /\ q[i].role = r

\* the query of the strategy in progress (lines 199-209)
QueryInFlight == StrategiesOf(desc)[si].query

\* C25: a search has exactly five strategies, a university's from the
\* distinctive campus building to the campus view and a city's from the
\* skyline to the downtown cityscape; every query has the entity's name
\* between quotes; a city query has the country, between quotes, if and only
\* if the country is supplied, and a university query has none.
C25_StrategySequencer ==
    Discover =>
       LET d == Descriptors[desc]
           st == StrategiesOf(desc)
           nameRole == IF d.type = "university" THEN "universityName" ELSE "cityName"
       IN  /\ Len(st) = 5
           /\ st[1].name = IF d.type = "university"
                           THEN "Distinctive Campus Building (Best)"
                           ELSE "Cityscape Skyline (Best)"
           /\ st[5].name = IF d.type = "university" THEN "Campus View with Building"
                           ELSE "Downtown Cityscape"
           /\ \A i \in 1..Len(st) :
                 /\ QuotedArg(st[i].query, nameRole, d.name)
                 /\ IF d.type = "city" /\ d.country # <<>>
                    THEN QuotedArg(st[i].query, "country", d.country)
                    ELSE ~HasArg(st[i].query, "country")
           /\ pc = "fetch" => QuotedArg(QueryInFlight, nameRole, d.name)

\* the fifth query of a city search with a country is in flight
C25_Witness ==
    /\ Discover
    /\ pc = "fetch"
    /\ si = 5
    /\ Descriptors[desc].type = "city"
    /\ Descriptors[desc].country # <<>>
    /\ QuotedArg(QueryInFlight, "country", Descriptors[desc].country)

(***************************************************************************)
(* The classifier and its copies                                           *)
(***************************************************************************)
\* the verdict of ImageSearchService.isValidImageUrl (and of its copy
\* GeminiService.validateImageUrl) for u when every HEAD request it sends
\* has the outcome o
SameOutcomeVerdict(u, o) == ClassifierVerdict(u, <<o, o>>) = "true"

\* the verdict of CityService.validateImageUrl for u when its HEAD request
\* has the outcome o
CitySameOutcomeVerdict(u, o) ==
    LET r0 == cityValidateSync(u)
    IN  IF r0 \in {"true", "false"} THEN r0 = "true"
        ELSE cityAfterProbe(o) = "true"

\* a standalone call of one of the three classifiers has returned
Validated ==
    /\ mode \in {"validate", "geminiValidate", "cityValidate"}
    /\ pc = "done"

\* C26: the three classifiers agree: when one of them has returned for a
\* URL, and every HEAD request it sent had the outcome o, its verdict is the
\* verdict of ImageSearchService.isValidImageUrl and of
\* CityService.validateImageUrl for that URL with outcome o.
C26_SameClassifier ==
    Validated =>
       \A o \in ProbeOutcomes :
          (\A i \in 1..Len(probes) : probes[i] = o)
          => /\ result = Bool(SameOutcomeVerdict(imageUrl, o))
             /\ result = Bool(CitySameOutcomeVerdict(imageUrl, o))

\* C27: a call of isValidImageUrl (or of its copy GeminiService.validateImageUrl)
\* sends at most one HEAD request.
C27_AtMostOneProbe ==
    mode \in {"discover", "validate", "geminiValidate"} => Len(probes) <= 1

(***************************************************************************)
(* Names without a significant word                                        *)
(***************************************************************************)
\* the search is for a university whose non-empty name has no word of more
\* than three characters
NoSignificantWord ==
    /\ Discover
    /\ Descriptors[desc].type = "university"
    /\ Descriptors[desc].name # <<>>
    /\ nameWords(Descriptors[desc].name) = {}

\* C28: the search for a university whose name has no word of more than three
\* characters never reaches isValidImageUrl and never sends a HEAD request,
\* never throws, and when it returns it returns null after the queries of all
\* five strategies.
C28_NoSignificantWord ==
    NoSignificantWord =>
        /\ pc \notin {"valid", "probe1", "probe2", "ret", "threw"}
        /\ probes = <<>>
        /\ pc = "eval" /\ idx > 1 => evalOut.out = "reject" /\ evalOut.stage <= 3
        /\ pc = "done" => result = Null /\ queried = <<1, 2, 3, 4, 5>>

\* the search for "MIT" returned null after the provider answered the fifth
\* query with items
C28_Witness ==
    /\ NoSignificantWord
    /\ pc = "done"
    /\ result = Null
    /\ lastResp = "items"

(***************************************************************************)
(* The controllers                                                         *)
(***************************************************************************)
\* the field is missing from the body or is not a string
MissingOrNonString(v) == v = Undefined \/ v.t # "string"

\* the request lacks a required field, or has a non-string value for it
InvalidRequest ==
    /\ cpc # "none"
    /\ IF req.route = "/extract-city"
       THEN MissingOrNonString(req.body.city) \/ MissingOrNonString(req.body.country)
       ELSE MissingOrNonString(req.body.university)

\* the handling of the request is not stuck: outside a search or validation
\* (which runs to its return on its own) the handler or the extraction
\* service has a next step
HandlingGoesOn ==
    IF pc = "idle"
    THEN ENABLED (ControllerExtract \/ GeminiResponds \/ ExtractStart
                  \/ ControllerRespond)
    ELSE pc \in {"done", "threw"} => ENABLED ExtractResume

\* C29: a request with a missing or non-string city or country
\* (/extract-city) or university (/extract) is answered 400 and the
\* extraction service is never called for it; when the extraction service
\* throws, the answer is 500; a request gets one response and no second one,
\* and until the response is sent the handling can go on.
C29_RequestValidation ==
    cpc # "none" =>
        /\ Len(res) <= 1
        /\ (cpc = "responded") <=> (Len(res) = 1)
        /\ cpc # "responded" => HandlingGoesOn
        /\ InvalidRequest =>
              /\ serviceCalls = 0
              /\ xpc = "none"
              /\ cpc = "responded" => res = <<400>>
        /\ (xpc = "threw" /\ cpc = "responded") => res = <<500>>
        /\ serviceCalls <= 1

\* a request without country was answered 400
C29_Witness400 ==
    /\ cpc = "responded"
    /\ req.route = "/extract-city"
    /\ req.body.city.t = "string"
    /\ req.body.country = Undefined
    /\ res = <<400>>

(***************************************************************************)
(* Post-processing                                                         *)
(***************************************************************************)
\* the strings "1" .. "5"
Ratings == {Str(<<"1">>), Str(<<"2">>), Str(<<"3">>), Str(<<"4">>), Str(<<"5">>)}

\* C30: after _postProcess the record's city_rating is one of "1".."5", its
\* student_happiness_score is null, absent or between 0 and 100, its climate
\* is null, absent, or one of warm, moderate, cold, and its
\* average_monthly_cost_of_living is the sum of the six cost components.
C30_PostProcess ==
    xpc = "postProcessed" =>
        /\ validatedData.city_rating \in Ratings
        /\ \/ validatedData.student_happiness_score \in {Null, Undefined}
           \/ /\ validatedData.student_happiness_score.n >= 0
              /\ validatedData.student_happiness_score.n <= 100
        /\ validatedData.climate \in {Null, Undefined} \cup climates
        /\ validatedData.average_monthly_cost_of_living =
              Num(validatedData.average_rent.n + validatedData.average_food_cost.n
                  + validatedData.transportation.n + validatedData.utilities.n
                  + validatedData.internet_and_subscriptions.n
                  + validatedData.miscellaneous.n)

====
